---- MODULE Spec2Model ----
(***************************************************************************)
(* Model of the WMI event subscription (NotificationQuery): the            *)
(* StartNotifications poll loop, Stop, SetNotificationTimeout, the         *)
(* unbuffered doneCh rendezvous and the delivery of decoded events on the  *)
(* caller's event channel.                                                 *)
(***************************************************************************)
EXTENDS Integers, Naturals, Sequences, FiniteSets, TLC

\* ------------------------------------------------------------------ bounds
\* Number of API calls (goroutines calling StartNotifications, Stop or
\* SetNotificationTimeout) in one run.
MaxCalls == 3
\* Number of events the notification source can produce in one run.
MaxEvents == 2
\* Largest capacity of the caller's event channel (0 = unbuffered).
MaxChanCap == 1
\* The counter of timeouts seen by a waiting Stop saturates here.
MaxTimeoutCount == 3

\* --------------------------------------------------------------- constants
\* wbemErrTimedOut = 0x80043001, kept as its two 16-bit halves <<0x8004, 0x3001>>
\* (the value does not fit a 32-bit signed integer).
wbemErrTimedOutHi == 32772
wbemErrTimedOutLo == 12289
wbemErrTimedOut == <<wbemErrTimedOutHi, wbemErrTimedOutLo>>
Microsecond == 1000
Millisecond == 1000000
Second == 1000000000
defaultNotificationTimeout == Second

stateNotStarted == 0
stateStarted == 1
stateStopped == 2

Calls == 1..MaxCalls
NoCall == 0

\* time.Duration arguments of SetNotificationTimeout, in nanoseconds.
Durations == {0 - Millisecond, 2 * Millisecond}

\* error values
NilErr == [kind |-> "nil"]
OleError(code) == [kind |-> "ole", code |-> code]
PlainError == [kind |-> "error"]
\* What NextEvent comes back with when its bound runs out.
TimedOut == OleError(wbemErrTimedOut)
\* Another OLE failure (a different code) .
OtherOleError == OleError(<<wbemErrTimedOutHi, wbemErrTimedOutLo + 1>>)
\* The errors SWbemEventSource.NextEvent can come back with.
NextEventErrors == {TimedOut, OtherOleError, PlainError}

\* no event in hand
NoEvent == [id |-> 0, ok |-> TRUE]

VARIABLES
    state,            \* q.state
    mu,               \* q.Mutex: the call holding it, NoCall when unlocked
    queryTimeoutMs,   \* q.queryTimeoutMs
    op,               \* op[c]: the method call c runs ("none" before the call)
    pc,               \* pc[c]: position of call c in its method
    ret,              \* ret[c]: what call c returned ("none" until it returns)
    arg,              \* arg[c]: the Duration passed to SetNotificationTimeout
    waitBound,        \* waitBound[c]: the bound passed to the NextEvent in flight
    nextErr,          \* nextErr[c]: err of the last NextEvent of call c
    cur,              \* cur[c]: the event call c's loop holds
    runner,           \* the call that moved q.state to stateStarted
    produced,         \* number of events the notification source has produced
    delivered,        \* ids of the events sent on q.eventCh, in order
    chanCap,          \* capacity of q.eventCh (chosen by the caller)
    chanLen,          \* events sitting in q.eventCh's buffer
    receiving,        \* the caller still receives from q.eventCh
    eventCh,          \* q.eventCh: "open", "closed" (by the caller),
                      \* "recv-only" (made from a <-chan T value) or
                      \* "none" (no query is made yet)
    heldEvents,       \* ids of the event objects NextEvent returned that have
                      \* not been released
    stopWaitTimeouts, \* NextEvent timeouts since a Stop blocked on doneCh
    afterReturn       \* afterReturn[c]: call c began after the StartNotifications
                      \* call that set stateStarted had returned

\* One Decoder.Unmarshal call, a record of
\*   decoder    the Decoder: NonePtrZero, PtrNil, AllowMissingFields
\*   usrc       the dynamic object passed to Unmarshal
\*   dstType    the structure type dst points to
\*   udst       *dst
\*   dstAtCall  *dst when Unmarshal was called
\*   uerr       the error Unmarshal returned
\*   ufetched   the property names passed to GetProperty, in order
\*   upc        "idle", "call" (Unmarshal about to run) or "done"
\* (upc alone while no call is made).
VARIABLE dec

decoder == dec.decoder
usrc == dec.usrc
dstType == dec.dstType
udst == dec.udst
dstAtCall == dec.dstAtCall
uerr == dec.uerr
ufetched == dec.ufetched
upc == dec.upc

\* One Query call (SWbemServices.Query or SWbemServicesConnection.Query), a
\* record of
\*   qmethod    the receiver's type: "SWbemServices" or "SWbemServicesConnection"
\*   qclosed    the receiver was closed before the call
\*   qdecoder   the receiver's Decoder
\*   qarg       the dst argument: its type and whether it is a nil pointer
\*   qslice     the caller's slice (the elements *dst holds)
\*   qsliceAtCall  the caller's slice when Query was called
\*   qhandle    s.sWbemServices of the connection queried: "open", "released"
\*              (the object was released, the pointer is still set) or "nil"
\*   qlocator   s.sWbemLocator of the SWbemServices queried: "open", "released"
\*              or "nil" ("none" where the receiver is a connection)
\*   qclose     position of a Close call made by another goroutine on the
\*              receiver: "none", "locked", "cleared" or "done"
\*   qcloseRet  the error that Close call returned
\*   qexecOn    qhandle as it was when ExecQuery was issued ("none" before)
\*   qitems     the items of the result set not yet enumerated
\*   qdecoded   the errors Unmarshal returned, one per item decoded
\*   qacc       errFieldMismatch of query
\*   qret       the error the call returned
\*   qdeferred  the errors the deferred releases of the call returned, in the
\*              order they ran
\*   qremote    the remote calls issued, in order
\*   qpc        position of the call
\* (qpc alone while no call is made).
VARIABLE qry

qmethod == qry.qmethod
qclosed == qry.qclosed
qdecoder == qry.qdecoder
qarg == qry.qarg
qslice == qry.qslice
qsliceAtCall == qry.qsliceAtCall
qhandle == qry.qhandle
qlocator == qry.qlocator
qclose == qry.qclose
qcloseRet == qry.qcloseRet
qexecOn == qry.qexecOn
qitems == qry.qitems
qdecoded == qry.qdecoded
qacc == qry.qacc
qret == qry.qret
qdeferred == qry.qdeferred
qremote == qry.qremote
qpc == qry.qpc

\* One NewNotificationQuery call, a record of
\*   ntype   the type of the eventCh argument
\*   nret    what the call returned: the error, or a panic
\*   npc     "idle", "call" (about to run) or "done"
\* (npc alone while no call is made).
VARIABLE newq

ntype == newq.ntype
nret == newq.nret
npc == newq.npc

restVars == <<dec, qry, newq>>

vars == <<state, mu, queryTimeoutMs, op, pc, ret, arg, waitBound, nextErr, cur,
          runner, produced, delivered, chanCap, chanLen, receiving, eventCh, heldEvents,
          stopWaitTimeouts, afterReturn, restVars>>

subVars == <<state, mu, queryTimeoutMs, op, pc, ret, arg, waitBound, nextErr, cur,
             runner, stopWaitTimeouts, afterReturn>>
envVars == <<produced, delivered, chanCap, chanLen, receiving, eventCh, heldEvents>>

\* ------------------------------------------------------------------ helpers
\* The positions of StartNotifications between q.state = stateStarted and return.
SetupPcs == {"connect", "subscribe"}
LoopPcs == {"loop_check", "next_event", "waiting", "next_ret", "unmarshal", "send"}
RunningPcs == SetupPcs \cup LoopPcs

\* The call that ran the poll loop has returned a NextEvent or decode error.
LoopEndedWithError ==
    /\ runner # NoCall
    /\ pc[runner] = "done"
    /\ ret[runner] \in {"ErrNextEvent", "ErrUnmarshal"}

\* The StartNotifications call that set stateStarted has returned.
LoopReturned == runner # NoCall /\ pc[runner] = "done"

\* Call c begins (q.Lock() succeeds).
Begin(c) == afterReturn' = [afterReturn EXCEPT ![c] = LoopReturned]

\* The Stop calls blocked in <-q.doneCh.
DoneChReceivers == {s \in Calls : pc[s] = "stop_wait"}

\* The type assertion alone, without the comparison of the code.
isTimeoutError_AnyOle(err) == err.kind = "ole"

isTimeoutError(err) == err.kind = "ole" /\ err.code = wbemErrTimedOut

DurationToBound(t) == IF t < 0 THEN 0 - 1 ELSE t \div Microsecond

Return(c, r) ==
    /\ pc' = [pc EXCEPT ![c] = "done"]
    /\ ret' = [ret EXCEPT ![c] = r]

\* What StartNotifications returns after its deferred function recovered a
\* panic: multierror.Append(err, fmt.Errorf("runtime panic; %v", err)).  The
\* function returns with q.state and q.Mutex as they are.
ErrRuntimePanic == "ErrRuntimePanic"

\* No Unmarshal call is made.
DecIdle == dec = [upc |-> "idle"]
\* No Query call is made.
QryIdle == qry = [qpc |-> "idle"]
\* No NewNotificationQuery call is made: the query exists.
NewIdle == newq = [npc |-> "idle"]
RestIdle == DecIdle /\ QryIdle /\ NewIdle

\* ------------------------------------------------------------------- Init
\* NewNotificationQuery followed by nothing: state not started, timeout 1s.
SubInit ==
    /\ state = stateNotStarted
    /\ mu = NoCall
    /\ queryTimeoutMs = DurationToBound(defaultNotificationTimeout)
    /\ op = [c \in Calls |-> "none"]
    /\ pc = [c \in Calls |-> "idle"]
    /\ ret = [c \in Calls |-> "none"]
    /\ arg = [c \in Calls |-> 0]
    /\ waitBound = [c \in Calls |-> 0]
    /\ nextErr = [c \in Calls |-> NilErr]
    /\ cur = [c \in Calls |-> NoEvent]
    /\ runner = NoCall
    /\ produced = 0
    /\ delivered = <<>>
    /\ chanCap \in 0..MaxChanCap
    /\ chanLen = 0
    /\ receiving = TRUE
    /\ eventCh \in {"open", "recv-only"}
    /\ heldEvents = {}
    /\ stopWaitTimeouts = 0
    /\ afterReturn = [c \in Calls |-> FALSE]

Init == SubInit /\ RestIdle

\* ------------------------------------------------- SetNotificationTimeout
SetLock(c) ==
    /\ pc[c] = "idle"
    /\ mu = NoCall
    /\ \E t \in Durations : arg' = [arg EXCEPT ![c] = t]
    /\ mu' = c
    /\ Begin(c)
    /\ op' = [op EXCEPT ![c] = "SetNotificationTimeout"]
    /\ pc' = [pc EXCEPT ![c] = "set_body"]
    /\ UNCHANGED <<state, queryTimeoutMs, ret, waitBound, nextErr, cur, runner,
                   stopWaitTimeouts>>
    /\ UNCHANGED envVars

SetBody(c) ==
    /\ pc[c] = "set_body"
    /\ queryTimeoutMs' = DurationToBound(arg[c])
    /\ mu' = NoCall
    /\ Return(c, "nil")
    /\ arg' = [arg EXCEPT ![c] = 0]
    /\ UNCHANGED <<state, op, waitBound, nextErr, cur, runner, stopWaitTimeouts>>
    /\ UNCHANGED <<envVars, afterReturn>>

\* ---------------------------------------------------------------- Stop
StopLock(c) ==
    /\ pc[c] = "idle"
    /\ mu = NoCall
    /\ mu' = c
    /\ Begin(c)
    /\ op' = [op EXCEPT ![c] = "Stop"]
    /\ pc' = [pc EXCEPT ![c] = "stop_check"]
    /\ UNCHANGED <<state, queryTimeoutMs, ret, arg, waitBound, nextErr, cur, runner,
                   stopWaitTimeouts>>
    /\ UNCHANGED envVars

\* Stop resets the state instead of marking it stopped.
StopFinish_Reset(c) ==
    /\ state' = stateNotStarted
    /\ mu' = NoCall
    /\ Return(c, "nil")

StopFinish(c) ==
    /\ state' = stateStopped
    /\ mu' = NoCall
    /\ Return(c, "nil")

\* Stop without the receive on doneCh.
StopCheck_NoWait(c) ==
    /\ pc[c] = "stop_check"
    /\ StopFinish(c)
    /\ UNCHANGED <<queryTimeoutMs, op, arg, waitBound, nextErr, cur, runner,
                   stopWaitTimeouts>>
    /\ UNCHANGED <<envVars, afterReturn>>

StopCheck(c) ==
    /\ pc[c] = "stop_check"
    /\ IF state = stateStarted
         THEN /\ pc' = [pc EXCEPT ![c] = "stop_wait"]
              /\ UNCHANGED <<state, mu, ret>>
         ELSE StopFinish(c)
    /\ UNCHANGED <<queryTimeoutMs, op, arg, waitBound, nextErr, cur, runner,
                   stopWaitTimeouts>>
    /\ UNCHANGED <<envVars, afterReturn>>

StopSet(c) ==
    /\ pc[c] = "stop_set"
    /\ StopFinish(c)
    /\ UNCHANGED <<queryTimeoutMs, op, arg, waitBound, nextErr, cur, runner,
                   stopWaitTimeouts>>
    /\ UNCHANGED <<envVars, afterReturn>>

\* ------------------------------------------------------ StartNotifications
StartLock(c) ==
    /\ pc[c] = "idle"
    /\ mu = NoCall
    /\ mu' = c
    /\ Begin(c)
    /\ op' = [op EXCEPT ![c] = "StartNotifications"]
    /\ pc' = [pc EXCEPT ![c] = "start_check"]
    /\ UNCHANGED <<state, queryTimeoutMs, ret, arg, waitBound, nextErr, cur, runner,
                   stopWaitTimeouts>>
    /\ UNCHANGED envVars

\* StartNotifications without the stateStopped case.
StartCheck_NoStoppedCase(c) ==
    /\ pc[c] = "start_check"
    /\ mu' = NoCall
    /\ IF state = stateStarted
         THEN /\ Return(c, "ErrAlreadyRunning")
              /\ UNCHANGED <<state, runner>>
         ELSE /\ state' = stateStarted
              /\ runner' = c
              /\ pc' = [pc EXCEPT ![c] = "connect"]
              /\ UNCHANGED ret
    /\ UNCHANGED <<queryTimeoutMs, op, arg, waitBound, nextErr, cur, stopWaitTimeouts>>
    /\ UNCHANGED <<envVars, afterReturn>>

\* StartNotifications without the stateStarted case.
StartCheck_NoStartedCase(c) ==
    /\ pc[c] = "start_check"
    /\ mu' = NoCall
    /\ IF state = stateStopped
         THEN /\ Return(c, "nil")
              /\ UNCHANGED <<state, runner>>
         ELSE /\ state' = stateStarted
              /\ runner' = c
              /\ pc' = [pc EXCEPT ![c] = "connect"]
              /\ UNCHANGED ret
    /\ UNCHANGED <<queryTimeoutMs, op, arg, waitBound, nextErr, cur, stopWaitTimeouts>>
    /\ UNCHANGED <<envVars, afterReturn>>

StartCheck(c) ==
    /\ pc[c] = "start_check"
    /\ mu' = NoCall
    /\ CASE state = stateStarted ->
              /\ Return(c, "ErrAlreadyRunning")
              /\ UNCHANGED <<state, runner>>
         [] state = stateStopped ->
              /\ Return(c, "nil")
              /\ UNCHANGED <<state, runner>>
         [] OTHER ->
              /\ state' = stateStarted
              /\ runner' = c
              /\ pc' = [pc EXCEPT ![c] = "connect"]
              /\ UNCHANGED ret
    /\ UNCHANGED <<queryTimeoutMs, op, arg, waitBound, nextErr, cur, stopWaitTimeouts>>
    /\ UNCHANGED <<envVars, afterReturn>>

\* createWMIConnection: the remote service connects or fails.
Connect(c) ==
    /\ pc[c] = "connect"
    /\ \/ /\ pc' = [pc EXCEPT ![c] = "subscribe"]
          /\ UNCHANGED ret
       \/ Return(c, "ErrConnect")
    /\ UNCHANGED <<state, mu, queryTimeoutMs, op, arg, waitBound, nextErr, cur, runner,
                   stopWaitTimeouts>>
    /\ UNCHANGED <<envVars, afterReturn>>

\* ExecNotificationQuery: the subscription is accepted or fails.
Subscribe(c) ==
    /\ pc[c] = "subscribe"
    /\ \/ /\ pc' = [pc EXCEPT ![c] = "loop_check"]
          /\ UNCHANGED ret
       \/ Return(c, "ErrExecNotificationQuery")
    /\ UNCHANGED <<state, mu, queryTimeoutMs, op, arg, waitBound, nextErr, cur, runner,
                   stopWaitTimeouts>>
    /\ UNCHANGED <<envVars, afterReturn>>

\* The send on doneCh meets the Stop call blocked in the receive.
AckStop(c, s) ==
    /\ pc' = [pc EXCEPT ![c] = "done", ![s] = "stop_set"]
    /\ ret' = [ret EXCEPT ![c] = "nil"]

\* The loop without its check of doneCh.
LoopSelect_NoStopCheck(c) ==
    /\ pc[c] = "loop_check"
    /\ pc' = [pc EXCEPT ![c] = "next_event"]
    /\ UNCHANGED ret
    /\ UNCHANGED <<state, mu, queryTimeoutMs, op, arg, waitBound, nextErr, cur, runner,
                   stopWaitTimeouts>>
    /\ UNCHANGED <<envVars, afterReturn>>

\* select { case q.doneCh <- struct{}{}: return nil; default: }
LoopSelect(c) ==
    /\ pc[c] = "loop_check"
    /\ IF DoneChReceivers # {}
         THEN \E s \in DoneChReceivers : AckStop(c, s)
         ELSE /\ pc' = [pc EXCEPT ![c] = "next_event"]
              /\ UNCHANGED ret
    /\ UNCHANGED <<state, mu, queryTimeoutMs, op, arg, waitBound, nextErr, cur, runner,
                   stopWaitTimeouts>>
    /\ UNCHANGED <<envVars, afterReturn>>

\* eventSource.CallMethod("NextEvent", q.queryTimeoutMs): the call is issued.
NextEventCall(c) ==
    /\ pc[c] = "next_event"
    /\ waitBound' = [waitBound EXCEPT ![c] = queryTimeoutMs]
    /\ pc' = [pc EXCEPT ![c] = "waiting"]
    /\ UNCHANGED <<state, mu, queryTimeoutMs, op, ret, arg, nextErr, cur, runner,
                   stopWaitTimeouts>>
    /\ UNCHANGED <<envVars, afterReturn>>

CountTimeout(err) ==
    IF err = TimedOut /\ DoneChReceivers # {} /\ stopWaitTimeouts < MaxTimeoutCount
      THEN stopWaitTimeouts + 1
      ELSE stopWaitTimeouts

\* NextEvent comes back: with the next event, with a timeout (only under a
\* finite bound), or with another failure.
NextEventReturn(c) ==
    /\ pc[c] = "waiting"
    /\ \/ /\ produced < MaxEvents
          /\ produced' = produced + 1
          /\ heldEvents' = heldEvents \cup {produced + 1}
          /\ \E ok \in BOOLEAN : cur' = [cur EXCEPT ![c] = [id |-> produced + 1, ok |-> ok]]
          /\ nextErr' = [nextErr EXCEPT ![c] = NilErr]
          /\ UNCHANGED stopWaitTimeouts
       \/ /\ \E err \in NextEventErrors :
                /\ err = TimedOut => waitBound[c] >= 0
                /\ nextErr' = [nextErr EXCEPT ![c] = err]
                /\ stopWaitTimeouts' = CountTimeout(err)
          /\ UNCHANGED <<produced, heldEvents, cur>>
    /\ pc' = [pc EXCEPT ![c] = "next_ret"]
    /\ waitBound' = [waitBound EXCEPT ![c] = 0]
    /\ UNCHANGED <<state, mu, queryTimeoutMs, op, ret, arg, runner>>
    /\ UNCHANGED <<delivered, chanCap, chanLen, receiving, eventCh>>
    /\ UNCHANGED afterReturn

\* if err != nil { if isTimeoutError(err) { continue }; return ... }
HandleNextEvent(c) ==
    /\ pc[c] = "next_ret"
    /\ IF nextErr[c] # NilErr
         THEN IF isTimeoutError(nextErr[c])
                THEN /\ pc' = [pc EXCEPT ![c] = "loop_check"]
                     /\ nextErr' = [nextErr EXCEPT ![c] = NilErr]
                     /\ UNCHANGED ret
                ELSE /\ Return(c, "ErrNextEvent")
                     /\ UNCHANGED nextErr
         ELSE /\ pc' = [pc EXCEPT ![c] = "unmarshal"]
              /\ UNCHANGED <<ret, nextErr>>
    /\ UNCHANGED <<state, mu, queryTimeoutMs, op, arg, waitBound, cur, runner,
                   stopWaitTimeouts>>
    /\ UNCHANGED <<envVars, afterReturn>>

\* An event is sent on even though decoding it failed.
UnmarshalEvent_IgnoreError(c) ==
    /\ pc[c] = "unmarshal"
    /\ pc' = [pc EXCEPT ![c] = "send"]
    /\ UNCHANGED ret
    /\ UNCHANGED <<state, mu, queryTimeoutMs, op, arg, waitBound, nextErr, cur, runner,
                   stopWaitTimeouts>>
    /\ UNCHANGED <<envVars, afterReturn>>

\* q.Unmarshal(event, e.Interface())
UnmarshalEvent(c) ==
    /\ pc[c] = "unmarshal"
    /\ IF cur[c].ok
         THEN /\ pc' = [pc EXCEPT ![c] = "send"]
              /\ UNCHANGED ret
         ELSE Return(c, "ErrUnmarshal")
    /\ UNCHANGED <<state, mu, queryTimeoutMs, op, arg, waitBound, nextErr, cur, runner,
                   stopWaitTimeouts>>
    /\ UNCHANGED <<envVars, afterReturn>>

\* The event is sent on the event channel twice.
trySend_SendTwice(c) ==
    /\ pc[c] = "send"
    /\ \/ /\ eventCh = "open"
          /\ IF chanCap = 0 THEN receiving ELSE chanLen < chanCap
          /\ delivered' = Append(Append(delivered, cur[c].id), cur[c].id)
          /\ chanLen' = IF chanCap = 0 THEN chanLen ELSE chanLen + 1
          /\ pc' = [pc EXCEPT ![c] = "loop_check"]
          /\ cur' = [cur EXCEPT ![c] = NoEvent]
          /\ UNCHANGED ret
       \/ /\ eventCh # "recv-only"
          /\ \E s \in DoneChReceivers :
                /\ pc' = [pc EXCEPT ![c] = "done", ![s] = "stop_set"]
                /\ ret' = [ret EXCEPT ![c] = "nil"]
          /\ UNCHANGED <<delivered, chanLen, cur>>
       \/ /\ eventCh # "open"
          /\ Return(c, ErrRuntimePanic)
          /\ UNCHANGED <<delivered, chanLen, cur>>
    /\ UNCHANGED <<state, mu, queryTimeoutMs, op, arg, waitBound, nextErr, runner,
                   stopWaitTimeouts>>
    /\ UNCHANGED <<produced, chanCap, receiving, eventCh, heldEvents>>
    /\ UNCHANGED afterReturn

\* The send on the open event channel can proceed: a receiver is there, or
\* the buffer has room.
ResChReady == IF chanCap = 0 THEN receiving ELSE chanLen < chanCap

\* trySend, through reflect.Select:
\* select { case resCh <- resEl: ...; case doneCh <- struct{}{}: ... }
\* reflect.Select panics on a send case whose channel is receive-only, before
\* any case is tried; the send on a closed channel is always ready and panics
\* when it is the case chosen.  The deferred function of StartNotifications
\* recovers the panic.
trySend(c) ==
    /\ pc[c] = "send"
    /\ \/ /\ eventCh = "open"
          /\ ResChReady
          /\ delivered' = Append(delivered, cur[c].id)
          /\ chanLen' = IF chanCap = 0 THEN chanLen ELSE chanLen + 1
          /\ pc' = [pc EXCEPT ![c] = "loop_check"]
          /\ cur' = [cur EXCEPT ![c] = NoEvent]
          /\ UNCHANGED ret
       \/ /\ eventCh # "recv-only"
          /\ \E s \in DoneChReceivers : AckStop(c, s)
          /\ UNCHANGED <<delivered, chanLen, cur>>
       \/ /\ eventCh # "open"
          /\ Return(c, ErrRuntimePanic)
          /\ UNCHANGED <<delivered, chanLen, cur>>
    /\ UNCHANGED <<state, mu, queryTimeoutMs, op, arg, waitBound, nextErr, runner,
                   stopWaitTimeouts>>
    /\ UNCHANGED <<produced, chanCap, receiving, eventCh, heldEvents>>
    /\ UNCHANGED afterReturn

\* ------------------------------------------------------------ the caller
\* The caller takes an event out of the channel's buffer.
Receive ==
    /\ receiving
    /\ chanLen > 0
    /\ chanLen' = chanLen - 1
    /\ UNCHANGED <<produced, delivered, chanCap, receiving, eventCh, heldEvents>>
    /\ UNCHANGED subVars

\* The caller stops receiving from the event channel.
StopReceiving ==
    /\ receiving
    /\ receiving' = FALSE
    /\ UNCHANGED <<produced, delivered, chanCap, chanLen, eventCh, heldEvents>>
    /\ UNCHANGED subVars

\* The caller closes the event channel.  What the caller receives from a
\* closed channel has no effect on the calls and is not followed.
CloseEventCh ==
    /\ eventCh = "open"
    /\ eventCh' = "closed"
    /\ receiving' = FALSE
    /\ UNCHANGED <<produced, delivered, chanCap, chanLen, heldEvents>>
    /\ UNCHANGED subVars

\* ------------------------------------------------------------------ Next
Next ==
    \/ \E c \in Calls : SetLock(c) /\ UNCHANGED restVars
    \/ \E c \in Calls : SetBody(c) /\ UNCHANGED restVars
    \/ \E c \in Calls : StopLock(c) /\ UNCHANGED restVars
    \/ \E c \in Calls : StopCheck(c) /\ UNCHANGED restVars
    \/ \E c \in Calls : StopSet(c) /\ UNCHANGED restVars
    \/ \E c \in Calls : StartLock(c) /\ UNCHANGED restVars
    \/ \E c \in Calls : StartCheck(c) /\ UNCHANGED restVars
    \/ \E c \in Calls : Connect(c) /\ UNCHANGED restVars
    \/ \E c \in Calls : Subscribe(c) /\ UNCHANGED restVars
    \/ \E c \in Calls : LoopSelect(c) /\ UNCHANGED restVars
    \/ \E c \in Calls : NextEventCall(c) /\ UNCHANGED restVars
    \/ \E c \in Calls : NextEventReturn(c) /\ UNCHANGED restVars
    \/ \E c \in Calls : HandleNextEvent(c) /\ UNCHANGED restVars
    \/ \E c \in Calls : UnmarshalEvent(c) /\ UNCHANGED restVars
    \/ \E c \in Calls : trySend(c) /\ UNCHANGED restVars
    \/ Receive /\ UNCHANGED restVars
    \/ StopReceiving /\ UNCHANGED restVars
    \/ CloseEventCh /\ UNCHANGED restVars

Spec == Init /\ [][Next]_vars

\* A goroutine that can take a step of its method takes it; a NextEvent wait
\* under a finite bound comes back.  Calls being made, events being produced
\* and the caller receiving are left to the environment.
Proceed(c) ==
    /\ \/ SetBody(c) \/ StopCheck(c) \/ StopSet(c) \/ StartCheck(c) \/ Connect(c)
       \/ Subscribe(c) \/ LoopSelect(c) \/ NextEventCall(c) \/ HandleNextEvent(c)
       \/ UnmarshalEvent(c) \/ trySend(c)
       \/ (waitBound[c] >= 0 /\ NextEventReturn(c))
    /\ UNCHANGED restVars

Fairness == \A c \in Calls : WF_vars(Proceed(c))

FairSpec == Spec /\ Fairness

\* ------------------------------------------------------------------ claims
StopReturned == \E s \in Calls : op[s] = "Stop" /\ pc[s] = "done"
NoStopCalled == \A s \in Calls : op[s] # "Stop"
\* C1: a Stop call made after StartNotifications has returned with a NextEvent
\* or decode error does not end up blocked in the receive on doneCh (where,
\* the loop being gone, nothing would ever release it).
C1_StopAfterErrorReturns ==
    \A s \in Calls : (op[s] = "Stop" /\ afterReturn[s] /\ LoopEndedWithError) => pc[s] # "stop_wait"

\* C2: a Stop call leaves its receive on doneCh only together with the poll
\* loop's acknowledgment; once a Stop has returned, the state is stopped, no
\* call is in the set-up or the loop of StartNotifications, and nothing more
\* is sent on the event channel.
C2_AfterStop ==
    StopReturned =>
        /\ state = stateStopped
        /\ \A c \in Calls : pc[c] \notin RunningPcs
C2_StopStep ==
    /\ \A s \in Calls :
          (pc[s] = "stop_wait" /\ pc'[s] # "stop_wait") =>
              /\ pc'[s] = "stop_set"
              /\ \E c \in Calls : /\ pc[c] \in {"loop_check", "send"}
                                  /\ pc'[c] = "done"
                                  /\ ret'[c] = "nil"
    /\ StopReturned => delivered' = delivered
C2_StopWaitsForAck == []C2_AfterStop /\ [][C2_StopStep]_vars
C2_Witness ==
    /\ StopReturned
    /\ runner # NoCall
    /\ ret[runner] = "nil"
    /\ Len(delivered) > 0

\* C3: while a Stop is blocked on doneCh at most one NextEvent wait times out,
\* and after that timeout the loop's next step is its check of doneCh; the
\* StartNotifications call that a Stop has been acknowledged by returned nil.
C3_StopWithinOneTimeout ==
    /\ stopWaitTimeouts <= 1
    /\ (DoneChReceivers # {} /\ stopWaitTimeouts = 1) =>
           /\ runner # NoCall
           /\ pc[runner] \in {"next_ret", "loop_check"}
           /\ pc[runner] = "next_ret" => nextErr[runner] = TimedOut
    /\ \A s \in Calls :
          (op[s] = "Stop" /\ pc[s] \in {"stop_set", "done"} /\ runner # NoCall) =>
              (pc[runner] = "done" /\ ret[runner] = "nil")
C3_Witness ==
    /\ stopWaitTimeouts = 1
    /\ produced = 0
    /\ StopReturned
    /\ runner # NoCall
    /\ ret[runner] = "nil"

\* C4: a Stop that finds the subscription not started goes straight to its
\* return, leaving the state stopped; a StartNotifications that then finds it
\* stopped returns nil in that step, without starting and without delivering.
C4_Step ==
    /\ \A s \in Calls :
          (pc[s] = "stop_check" /\ state = stateNotStarted /\ pc'[s] # pc[s]) =>
              (pc'[s] = "done" /\ ret'[s] = "nil" /\ state' = stateStopped /\ mu' = NoCall)
    /\ \A c \in Calls :
          (pc[c] = "start_check" /\ state = stateStopped /\ runner = NoCall
              /\ pc'[c] # pc[c]) =>
              /\ pc'[c] = "done"
              /\ ret'[c] = "nil"
              /\ UNCHANGED <<state, runner, delivered, produced>>
C4_StopBeforeStart ==
    /\ [][C4_Step]_vars
    /\ []((state = stateStopped /\ runner = NoCall) =>
             /\ delivered = <<>>
             /\ \A c \in Calls : pc[c] \notin RunningPcs
             /\ \A c \in Calls :
                   (op[c] = "StartNotifications" /\ pc[c] = "done") => ret[c] = "nil")
C4_Witness ==
    /\ state = stateStopped
    /\ runner = NoCall
    /\ \E c \in Calls : op[c] = "StartNotifications" /\ pc[c] = "done" /\ ret[c] = "nil"

\* C5: at most one StartNotifications call is past the state switch and not
\* yet returned; with no Stop called, every other StartNotifications call
\* returns ErrAlreadyRunning, and the step in which it does changes nothing
\* but that call's own return and the release of the lock.
C5_OneRunner ==
    /\ Cardinality({c \in Calls : pc[c] \in RunningPcs}) <= 1
    /\ \A c \in Calls : ret[c] = "ErrAlreadyRunning" => (runner # NoCall /\ runner # c)
    /\ NoStopCalled =>
          \A c \in Calls :
              (op[c] = "StartNotifications" /\ pc[c] # "start_check") =>
                  /\ runner # NoCall
                  /\ c # runner => (pc[c] = "done" /\ ret[c] = "ErrAlreadyRunning")
C5_Step ==
    \A c \in Calls :
        (ret'[c] = "ErrAlreadyRunning" /\ ret[c] # "ErrAlreadyRunning") =>
            /\ UNCHANGED <<state, queryTimeoutMs, runner, waitBound, nextErr, cur,
                           stopWaitTimeouts>>
            /\ UNCHANGED envVars
            /\ \A d \in Calls \ {c} : pc'[d] = pc[d] /\ ret'[d] = ret[d]
C5_ConcurrentStart == []C5_OneRunner /\ [][C5_Step]_vars
C5_Witness ==
    /\ NoStopCalled
    /\ runner # NoCall
    /\ pc[runner] \in LoopPcs
    /\ \E c \in Calls : ret[c] = "ErrAlreadyRunning"

\* C6: the state never decreases in the order not started, started, stopped.
C6_Step == state' >= state
C6_StateMonotonic ==
    /\ [](state \in {stateNotStarted, stateStarted, stateStopped})
    /\ [][C6_Step]_vars
C6_Witness ==
    /\ state = stateStopped
    /\ runner # NoCall
    /\ \E c \in Calls : op[c] = "SetNotificationTimeout" /\ pc[c] = "done"

\* C7: when the loop is at the delivery of a decoded event, the caller has
\* stopped receiving and a Stop is blocked on doneCh, then eventually that
\* Stop has returned and the StartNotifications call has returned nil.  (Not
\* so once the caller has closed the event channel, or with a receive-only
\* one: the delivery step panics, StartNotifications returns the recovered
\* panic and nothing acknowledges the Stop.)
C7_DeliveryYieldsToStop ==
    ((\E c \in Calls : pc[c] = "send") /\ ~receiving /\ DoneChReceivers # {})
        ~> (StopReturned /\ runner # NoCall /\ pc[runner] = "done" /\ ret[runner] = "nil")

\* C8: the ids sent on the event channel are strictly increasing (source
\* order, each at most once); at most one call holds an event, that event is
\* the last one the source produced and is newer than everything delivered.
C8_InOrderOneInFlight ==
    /\ \A i \in 1..Len(delivered) :
          /\ delivered[i] \in 1..produced
          /\ i > 1 => delivered[i - 1] < delivered[i]
    /\ Cardinality({c \in Calls : cur[c].id # 0}) <= 1
    /\ \A c \in Calls :
          cur[c].id # 0 =>
              /\ cur[c].id = produced
              /\ \A i \in 1..Len(delivered) : delivered[i] < cur[c].id
    /\ chanLen <= Len(delivered)
C8_Witness ==
    /\ Len(delivered) = 2
    /\ delivered[1] = 1
    /\ delivered[2] = 2

\* C9: a NextEvent timeout sends the loop back to its check of doneCh without
\* a return; any other NextEvent error, and a decode failure, ends the call
\* with that error; no StartNotifications call returns an error on a timeout.
C9_Outcome ==
    \A c \in Calls :
        /\ ret[c] = "ErrNextEvent" =>
              (pc[c] = "done" /\ nextErr[c] \in NextEventErrors \ {TimedOut})
        /\ ret[c] = "ErrUnmarshal" => (pc[c] = "done" /\ cur[c].id # 0 /\ ~cur[c].ok)
        /\ pc[c] \in LoopPcs \ {"next_ret"} => nextErr[c] = NilErr
        /\ pc[c] = "send" => (cur[c].id # 0 /\ cur[c].ok)
C9_Step ==
    \A c \in Calls :
        /\ (pc[c] = "next_ret" /\ nextErr[c] = TimedOut /\ pc'[c] # pc[c]) =>
              (pc'[c] = "loop_check" /\ ret'[c] = "none")
        /\ (pc[c] = "next_ret" /\ nextErr[c] \in NextEventErrors \ {TimedOut}
              /\ pc'[c] # pc[c]) =>
              (pc'[c] = "done" /\ ret'[c] = "ErrNextEvent")
        /\ (pc[c] = "unmarshal" /\ ~cur[c].ok /\ pc'[c] # pc[c]) =>
              (pc'[c] = "done" /\ ret'[c] = "ErrUnmarshal")
C9_TimeoutIsNotAnError == []C9_Outcome /\ [][C9_Step]_vars
C9_Witness ==
    \E c \in Calls :
        /\ ret[c] = "ErrNextEvent"
        /\ nextErr[c] = OtherOleError
        /\ Len(delivered) > 0

\* C10: a StartNotifications call that returned ErrAlreadyRunning was made
\* while another StartNotifications call was running: no call made while no
\* call is running returns it.
C10_AlreadyRunningMeansRunning ==
    \A c \in Calls : ret[c] = "ErrAlreadyRunning" => (runner # NoCall /\ ~afterReturn[c])

\* =========================================================================
\* Decoder: Unmarshal of one dynamic object into a destination structure.
\* =========================================================================
\* Values are tagged tuples, the tag first.  Go strings whose characters the
\* code looks at are sequences of one-character strings.

\* ---- Go types (reflect.Type): <<kind>>, <<"Struct", name>>,
\* <<"Ptr", elem>>, <<"Slice", elem>>.
SignedKinds == {"Int", "Int8", "Int16", "Int32", "Int64"}
UnsignedKinds == {"Uint", "Uint8", "Uint16", "Uint32", "Uint64"}
IntKinds == SignedKinds \cup UnsignedKinds
Bits(kind) ==
    CASE kind \in {"Int8", "Uint8"} -> 8
      [] kind \in {"Int16", "Uint16"} -> 16
      [] kind \in {"Int32", "Uint32"} -> 32
      [] OTHER -> 64
Kind(t) == t[1]
Elem(t) == t[2]
TStruct(name) == <<"Struct", name>>
TPtr(t) == <<"Ptr", t>>
TSlice(t) == <<"Slice", t>>
timeType == TStruct(<<"time.Time">>)

\* ---- Go values.
\* An integer is <<"int", p, n>>: the number n when p = 0, and 2^p + n (n < 0)
\* when p is 32 or 64; such a number exceeds what TLC's integers hold
\* and is only produced by the conversion of a negative number to uint64.
IntV(n) == <<"int", 0, n>>
BigV(p, n) == <<"int", p, n>>
StrV(s) == <<"string", s>>
BoolV(b) == <<"bool", b>>
FloatV(f) == <<"float32", f>>
NilPtr == <<"nil">>
PtrTo(v) == <<"ptr", v>>
SliceV(s) == <<"slice", s>>
StructV(fs) == <<"struct", fs>>
\* time.Time: wall clock fields and the zone offset in seconds east of UTC.
TimeV(y, mo, d, h, mi, s, us, off) == <<"time", y, mo, d, h, mi, s, us, off>>

\* ---- struct declarations: name, `wmi` tag, type, exported (CanSet).
Field(name, tag, type) == [Name |-> name, Tag |-> tag, Type |-> type, Exported |-> TRUE]
Unexported(name, type) == [Name |-> name, Tag |-> "", Type |-> type, Exported |-> FALSE]

\* The integer kinds a destination field takes in the one-field structure
\* intHolder.
HolderKinds == IntKinds \cup {"String", "Bool", "Float32"}
HolderName(kind) == <<"intHolder", kind>>

\* The structure types decoded into.  s, miniProcess, taggedMiniProcess,
\* userProfile (with its anonymous structure, folder), miniBIOS,
\* selfMadeProcess (with dto) and dumbUnmarshaller are declared in the
\* source, collision in the comment of Unmarshal and settings in netAdapter;
\* ptrProcess has the pointer fields of Win32_Process.  The others are
\* structures a caller may declare: mixedCollision and narrowCollision have
\* two fields of different types for one property, adapterSettings a pointer
\* to a structure of two fields, intHolder one field of a given kind, and
\* callerUnmarshaler is a type of the caller that implements Unmarshaler (no
\* type of the source does).
StructNames ==
    {<<"s">>, <<"miniProcess">>, <<"taggedMiniProcess">>, <<"collision">>,
     <<"userProfile">>, <<"folder">>, <<"miniBIOS">>, <<"ptrProcess">>,
     <<"selfMadeProcess">>, <<"dumbUnmarshaller">>, <<"dto">>,
     <<"mixedCollision">>, <<"narrowCollision">>, <<"adapterSettings">>,
     <<"callerUnmarshaler">>}
        \cup {HolderName(k) : k \in HolderKinds}

StructFields(name) ==
    CASE name = <<"s">> ->
           <<Field("Name", "", <<"String">>),
             Field("HandleCount", "", <<"Uint32">>),
             Field("Blah", "", <<"Uint32">>)>>
      [] name = <<"miniProcess">> ->
           <<Field("Name", "", <<"String">>),
             Field("ProcessId", "", <<"Int">>),
             Field("CreationDate", "", timeType),
             Field("KernelModeTime", "", <<"Uint">>)>>
      [] name = <<"taggedMiniProcess">> ->
           <<Field("Name", "", <<"String">>),
             Field("PID", "ProcessId", <<"Uint32">>),
             Field("UserField", "-", <<"String">>)>>
      [] name = <<"collision">> ->
           <<Field("Field", "", <<"Int">>),
             Field("Field1", "Field", <<"Int">>),
             Field("Field2", "Field", <<"Int">>)>>
      [] name = <<"userProfile">> ->
           <<Field("SID", "", <<"String">>),
             Field("Desktop", "", TStruct(<<"folder">>)),
             Field("AppDataRoaming", "", TPtr(TStruct(<<"folder">>)))>>
      [] name = <<"folder">> ->
           <<Field("OfflineFileNameFolderGUID", "", <<"String">>)>>
      [] name = <<"miniBIOS">> ->
           <<Field("Version", "", <<"String">>),
             Field("BIOSVersion", "", TSlice(<<"String">>)),
             Field("BiosCharacteristics", "", TSlice(<<"Uint16">>))>>
      [] name = <<"ptrProcess">> ->
           <<Field("Description", "", TPtr(<<"String">>)),
             Field("ExecutionState", "", TPtr(<<"Uint16">>)),
             Unexported("handle", <<"String">>)>>
      [] name = <<"selfMadeProcess">> ->
           <<Field("HexPID", "", <<"String">>),
             Field("CoolProcessName", "", <<"String">>)>>
      [] name = <<"dumbUnmarshaller">> -> <<>>
      [] name = <<"mixedCollision">> ->
           <<Field("Field", "", <<"Int">>),
             Field("Field1", "Field", <<"String">>)>>
      [] name = <<"narrowCollision">> ->
           <<Field("Field", "", <<"Int">>),
             Field("Field1", "Field", <<"Uint8">>)>>
      [] name = <<"adapterSettings">> ->
           <<Field("Name", "", <<"String">>),
             Field("Settings", "", TPtr(TStruct(<<"settings">>)))>>
      [] name = <<"settings">> ->
           <<Field("IPEnabled", "", <<"Bool">>),
             Field("DHCPEnabled", "", <<"Bool">>)>>
      [] name = <<"callerUnmarshaler">> -> <<Field("Name", "", <<"String">>)>>
      [] name = <<"time.Time">> ->
           <<Unexported("wall", <<"Uint64">>),
             Unexported("ext", <<"Int64">>),
             Unexported("loc", TPtr(<<"Uintptr">>))>>
      [] name = <<"dto">> ->
           <<Field("Name", "", <<"String">>),
             Field("ProcessId", "", <<"Uint32">>)>>
      [] OTHER -> <<Field("Value", "", <<name[2]>>)>>

\* The parameter types of the method UnmarshalOLE the interface Unmarshaler
\* asks for, and of the method UnmarshalOLE of each structure type (<<>>: it
\* has none).  The methods of selfMadeProcess and dumbUnmarshaller take a
\* Decoder as well; the caller's type has the method of the interface.
UnmarshalerParams == <<"*ole.IDispatch">>
UnmarshalOLEParams(name) ==
    CASE name \in {<<"selfMadeProcess">>, <<"dumbUnmarshaller">>} ->
           <<"Decoder", "*ole.IDispatch">>
      [] name = <<"callerUnmarshaler">> -> UnmarshalerParams
      [] OTHER -> <<>>
\* dst.(Unmarshaler) succeeds for the types whose method set has the method
\* of the interface, parameter for parameter: for no type of the source, and
\* for the caller's.
Unmarshalers == {name \in StructNames : UnmarshalOLEParams(name) = UnmarshalerParams}

RECURSIVE ZeroValue(_)
\* reflect.Zero / reflect.New(t).Elem() of a type.
ZeroValue(t) ==
    CASE Kind(t) \in IntKinds -> IntV(0)
      [] Kind(t) = "String" -> StrV(<<>>)
      [] Kind(t) = "Bool" -> BoolV(FALSE)
      [] Kind(t) = "Float32" -> FloatV(0)
      [] Kind(t) = "Ptr" -> NilPtr
      [] Kind(t) = "Slice" -> SliceV(<<>>)
      [] t = timeType -> TimeV(1, 1, 1, 0, 0, 0, 0, 0)
      [] OTHER ->
           StructV([i \in 1..Len(StructFields(Elem(t))) |->
                       ZeroValue(StructFields(Elem(t))[i].Type)])

RECURSIVE OldValue(_)
\* A destination the caller filled before the call: no field is zero.
OldValue(t) ==
    CASE Kind(t) \in IntKinds -> IntV(7)
      [] Kind(t) = "String" -> StrV(<<"o", "l", "d">>)
      [] Kind(t) = "Bool" -> BoolV(TRUE)
      [] Kind(t) = "Float32" -> FloatV(7)
      [] Kind(t) = "Ptr" -> PtrTo(OldValue(Elem(t)))
      [] Kind(t) = "Slice" -> SliceV(<<OldValue(Elem(t))>>)
      [] t = timeType -> TimeV(1999, 12, 31, 23, 59, 59, 0, 0)
      [] OTHER ->
           StructV([i \in 1..Len(StructFields(Elem(t))) |->
                       OldValue(StructFields(Elem(t))[i].Type)])

\* ---- integers of a width
\* reflect.Value.SetInt(x) on a field of the given kind: x cut to the width.
SetInt(kind, x) ==
    IF Bits(kind) >= 32
    THEN IntV(x)
    ELSE IntV(((x + 2 ^ (Bits(kind) - 1)) % (2 ^ Bits(kind))) - 2 ^ (Bits(kind) - 1))

\* uint64(x) of an int64 x.
ToUint64(x) == IF x >= 0 THEN IntV(x) ELSE BigV(64, x)

\* reflect.Value.SetUint(u) on a field of the given kind: u cut to the width.
SetUint(kind, u) ==
    IF Bits(kind) >= 32
    THEN IF u[2] = 0 THEN u ELSE BigV(Bits(kind), u[3])
    ELSE IntV(u[3] % (2 ^ Bits(kind)))

\* ---- strings
Digits == <<"0", "1", "2", "3", "4", "5", "6", "7", "8", "9">>
HexDigits == Digits \o <<"a", "b", "c", "d", "e", "f">>
IsDigit(c) == \E i \in 1..Len(Digits) : Digits[i] = c
DigitVal(c) == (CHOOSE i \in 1..Len(Digits) : Digits[i] = c) - 1
AllDigits(s) == \A i \in 1..Len(s) : IsDigit(s[i])

RECURSIVE DecVal(_)
\* The number a sequence of decimal digits denotes.
DecVal(s) ==
    IF s = <<>> THEN 0
    ELSE 10 * DecVal(SubSeq(s, 1, Len(s) - 1)) + DigitVal(s[Len(s)])

RECURSIVE InBase(_, _)
\* The digits of n >= 0 in base b.
InBase(n, b) ==
    IF n < b THEN <<HexDigits[n + 1]>>
    ELSE InBase(n \div b, b) \o <<HexDigits[(n % b) + 1]>>

\* Go's integer division and remainder (truncated towards zero).
GoDiv(a, b) == IF a >= 0 THEN a \div b ELSE 0 - ((0 - a) \div b)
GoMod(a, b) == a - b * GoDiv(a, b)

\* fmt.Sprintf("%02d", n)
Fmt02d(n) ==
    IF n < 0 THEN <<"-">> \o InBase(0 - n, 10)
    ELSE IF n < 10 THEN <<"0">> \o InBase(n, 10)
    ELSE InBase(n, 10)

\* fmt.Sprintf("%x", v) of a uint32 field value; 2^32 + n (n < 0) is written
\* from its two 16-bit halves.
FmtHex(v) ==
    IF v[2] = 0 THEN InBase(v[3], 16)
    ELSE LET hi == 65535 - ((0 - v[3] - 1) \div 65536)
             lo == InBase(65535 - ((0 - v[3] - 1) % 65536), 16)
         IN  InBase(hi, 16) \o [i \in 1..(4 - Len(lo)) |-> "0"] \o lo

\* errors are <<"nil">>, <<"error", text>> with text a tuple beginning with
\* the message, or <<"ErrFieldMismatch", FieldType, FieldName, Reason>>.
nilError == <<"nil">>
errorsNew(text) == <<"error", text>>
ErrFieldMismatch(type, name, reason) == <<"ErrFieldMismatch", type, name, reason>>
\* err.Error()
ErrorText(e) ==
    IF e[1] = "ErrFieldMismatch"
    THEN <<"wmi: cannot load field %q into a %q: %s", e[3], e[2], e[4]>>
    ELSE e[2]

\* strconv.ParseInt(val, 10, 64): an optional sign, then decimal digits.
ParseInt(val) ==
    LET signed == Len(val) > 0 /\ val[1] \in {"+", "-"}
        digits == IF signed THEN Tail(val) ELSE val
    IN  IF digits = <<>> \/ ~AllDigits(digits)
        THEN [err |-> errorsNew(<<"strconv.ParseInt: parsing %q: invalid syntax", val>>),
              n |-> 0]
        ELSE [err |-> nilError,
              n |-> IF signed /\ val[1] = "-" THEN 0 - DecVal(digits)
                    ELSE DecVal(digits)]

\* strconv.ParseUint(val, 10, 64): decimal digits only.
ParseUint(val) ==
    IF val = <<>> \/ ~AllDigits(val)
    THEN [err |-> errorsNew(<<"strconv.ParseUint: parsing %q: invalid syntax", val>>),
          n |-> 0]
    ELSE [err |-> nilError, n |-> DecVal(val)]

\* The error of ParseInt as Atoi reports it.
atoiResult(val, r) ==
    IF r.err = nilError THEN r
    ELSE [err |-> errorsNew(<<"strconv.Atoi: parsing %q: invalid syntax", val>>),
          n |-> 0]

\* strconv.Atoi(val)
Atoi(val) == atoiResult(val, ParseInt(val))

\* ---- time
IsLeap(y) == (y % 4 = 0 /\ y % 100 # 0) \/ y % 400 = 0
DaysIn(y, m) ==
    IF m = 2 THEN (IF IsLeap(y) THEN 29 ELSE 28)
    ELSE IF m \in {4, 6, 9, 11} THEN 30 ELSE 31

RECURSIVE DaysBeforeMonth(_, _)
DaysBeforeMonth(y, m) ==
    IF m = 1 THEN 0 ELSE DaysBeforeMonth(y, m - 1) + DaysIn(y, m - 1)

RECURSIVE DaysBeforeYear(_)
\* Days from 1970-01-01 to the first day of year y >= 1970.
DaysBeforeYear(y) ==
    IF y <= 1970 THEN 0
    ELSE DaysBeforeYear(y - 1) + (IF IsLeap(y - 1) THEN 366 ELSE 365)

\* The instant of a time.Time: <<seconds since 1970-01-01T00:00:00Z, microseconds>>
\* (what time.Time.Equal compares).
Instant(t) ==
    <<(DaysBeforeYear(t[2]) + DaysBeforeMonth(t[2], t[3]) + (t[4] - 1)) * 86400
          + t[5] * 3600 + t[6] * 60 + t[7] - t[9],
      t[8]>>

\* time.Parse("20060102150405.000000-0700", val): 14 digits of date and
\* clock, a point, 6 digits of fraction, a sign and 4 digits of zone offset
\* (hours, minutes), nothing after; month, day and clock within their ranges.
ParseTime(val) ==
    LET num(i, j) == DecVal(SubSeq(val, i, j))
        y == num(1, 4)
        mo == num(5, 6)
        d == num(7, 8)
        h == num(9, 10)
        mi == num(11, 12)
        sec == num(13, 14)
        us == num(16, 21)
        off == (num(23, 24) * 60 + num(25, 26)) * 60
        formed ==
            /\ Len(val) = 26
            /\ AllDigits(SubSeq(val, 1, 14))
            /\ val[15] = "."
            /\ AllDigits(SubSeq(val, 16, 21))
            /\ val[22] \in {"+", "-"}
            /\ AllDigits(SubSeq(val, 23, 26))
        ranged ==
            /\ mo \in 1..12
            /\ d \in 1..DaysIn(y, mo)
            /\ h < 24 /\ mi < 60 /\ sec < 60
    IN  IF formed /\ ranged
        THEN [err |-> nilError,
              t |-> TimeV(y, mo, d, h, mi, sec, us,
                          IF val[22] = "-" THEN 0 - off ELSE off)]
        ELSE [err |-> errorsNew(<<"parsing time %q", val>>),
              t |-> ZeroValue(timeType)]

\* The end of unmarshalTime: r is what time.Parse gave, old the field's value.
setParsedTime(old, r) ==
    IF r.err # nilError THEN [err |-> r.err, val |-> old]
    ELSE [err |-> nilError, val |-> r.t]

\* Reads a 3-digit offset as if it were hours and minutes with the hour's
\* first digit left out.
unmarshalTime_PadOffset(old, val) ==
    setParsedTime(old, ParseTime(IF Len(val) = 25
                                 THEN SubSeq(val, 1, 22) \o <<"0">> \o SubSeq(val, 23, 25)
                                 ELSE val))

\* unmarshalTime after strconv.Atoi(val[22:]) gave mins.
renormalized(old, val, mins) ==
    IF mins.err # nilError THEN [err |-> mins.err, val |-> old]
    ELSE setParsedTime(old, ParseTime(SubSeq(val, 1, 22)
                                          \o Fmt02d(GoDiv(mins.n, 60))
                                          \o Fmt02d(GoMod(mins.n, 60))))

\* unmarshalTime(fieldDst, val): old is the value the field holds.
unmarshalTime(old, val) ==
    IF Len(val) = 25
    THEN renormalized(old, val, Atoi(SubSeq(val, 23, Len(val))))
    ELSE setParsedTime(old, ParseTime(val))

\* fieldDst.SetInt(iv) / fieldDst.SetUint(uv) unless the parse failed.
setParsedInt(t, old, iv) ==
    IF iv.err # nilError THEN [err |-> iv.err, val |-> old]
    ELSE [err |-> nilError, val |-> SetInt(Kind(t), iv.n)]
setParsedUint(t, old, uv) ==
    IF uv.err # nilError THEN [err |-> uv.err, val |-> old]
    ELSE [err |-> nilError, val |-> SetUint(Kind(t), IntV(uv.n))]

\* smartUnmarshalString(fieldDst, val): t and old are the field's type and value.
smartUnmarshalString(t, old, val) ==
    CASE Kind(t) = "String" -> [err |-> nilError, val |-> StrV(val)]
      [] Kind(t) \in SignedKinds -> setParsedInt(t, old, ParseInt(val))
      [] Kind(t) \in UnsignedKinds -> setParsedUint(t, old, ParseUint(val))
      [] Kind(t) = "Struct" ->
           IF t = timeType THEN unmarshalTime(old, val)
           ELSE [err |-> errorsNew(<<"can't deserialize string into struct %T", t>>),
                 val |-> old]
      [] OTHER ->
           [err |-> errorsNew(<<"can't deserealize string into %s", Kind(t)>>),
            val |-> old]

\* ---- properties of the dynamic object (ole.VARIANT): <<VT, payload>>.
\* A dynamic object (ole.IDispatch) is a function from the names of the
\* properties it has to their VARIANTs.
SignedVTs == {"VT_I1", "VT_I2", "VT_I4", "VT_I8", "VT_INT"}
UnsignedVTs == {"VT_UI1", "VT_UI2", "VT_UI4", "VT_UI8", "VT_UINT"}
Variant(vt, x) == <<vt, x>>
VT(prop) == prop[1]
VT_NULL == <<"VT_NULL">>
VT_EMPTY == <<"VT_EMPTY">>

\* prop.Value(): the Go value, tagged with its dynamic type: "signed" for
\* int8, int16, int32, int64 and int, "unsigned" for uint8, uint16, uint32
\* and uint64, "uint" for the uint a VT_UINT gives.
Value(prop) ==
    CASE VT(prop) \in SignedVTs -> <<"signed", prop[2]>>
      [] VT(prop) \in UnsignedVTs \ {"VT_UINT"} -> <<"unsigned", prop[2]>>
      [] VT(prop) = "VT_UINT" -> <<"uint", prop[2]>>
      [] VT(prop) = "VT_BOOL" -> <<"bool", prop[2]>>
      [] VT(prop) = "VT_R4" -> <<"float32", prop[2]>>
      [] VT(prop) = "VT_BSTR" -> <<"string", prop[2]>>
      [] VT(prop) = "VT_DISPATCH" -> <<"*ole.IDispatch">>
      [] OTHER -> <<"nil">>

\* oleutil.GetProperty(src, fieldName) fails when src has no such property.
HasProperty(src, fieldName) == fieldName \in DOMAIN src

errSimpleVariantsExceeded == errorsNew(<<"unknown simple type">>)

\* unmarshalSimpleValue(dst, value): t and old are dst's type and value.
unmarshalSimpleValue(t, old, value) ==
    CASE value[1] = "signed" ->
           IF Kind(t) \in SignedKinds
           THEN [err |-> nilError, val |-> SetInt(Kind(t), value[2])]
           ELSE IF Kind(t) \in UnsignedKinds
           THEN [err |-> nilError, val |-> SetUint(Kind(t), ToUint64(value[2]))]
           ELSE [err |-> errorsNew(<<"not an integer class">>), val |-> old]
      [] value[1] = "unsigned" ->
           IF Kind(t) \in SignedKinds
           THEN [err |-> nilError, val |-> SetInt(Kind(t), value[2])]
           ELSE IF Kind(t) \in UnsignedKinds
           THEN [err |-> nilError, val |-> SetUint(Kind(t), IntV(value[2]))]
           ELSE [err |-> errorsNew(<<"not an integer class">>), val |-> old]
      [] value[1] = "bool" ->
           IF Kind(t) = "Bool"
           THEN [err |-> nilError, val |-> BoolV(value[2])]
           ELSE [err |-> errorsNew(<<"not a bool">>), val |-> old]
      [] value[1] = "float32" ->
           IF Kind(t) = "Float32"
           THEN [err |-> nilError, val |-> FloatV(value[2])]
           ELSE [err |-> errorsNew(<<"not a float32">>), val |-> old]
      [] value[1] = "string" -> smartUnmarshalString(t, old, value[2])
      [] OTHER -> [err |-> errSimpleVariantsExceeded, val |-> old]

\* The end of unmarshalSlice: rs[i] is what unmarshalSimpleValue gave for
\* element i.
sliceResult(t, old, arr, rs) ==
    LET bad == {i \in 1..Len(arr) : rs[i].err # nilError}
        first == CHOOSE i \in bad : \A j \in bad : i <= j
    IN  IF bad # {}
        THEN [err |-> errorsNew(<<"can't put %T into []%s", arr[first][1], Kind(Elem(t))>>),
              val |-> old]
        ELSE [err |-> nilError, val |-> SliceV([i \in 1..Len(arr) |-> rs[i].val])]

\* unmarshalSlice(fieldDst, safeArray): arr is safeArray.ToValueArray().
unmarshalSlice(t, old, arr) ==
    sliceResult(t, old, arr,
                [i \in 1..Len(arr) |->
                    unmarshalSimpleValue(Elem(t), ZeroValue(Elem(t)), arr[i])])

RECURSIVE Unmarshal(_, _, _, _)

\* What unmarshalField gives for a pointer field (the pointer to the decoded
\* value) or a plain one; r is the result for the pointed-to or plain value.
fieldResult(isPtr, r, names) ==
    [err |-> r.err, val |-> IF isPtr THEN PtrTo(r.val) ELSE r.val, fetched |-> names]
nestedResult(isPtr, r) ==
    [err |-> r.err, val |-> IF isPtr THEN PtrTo(r.dst) ELSE r.dst, fetched |-> r.fetched]

\* The default case of unmarshalField's switch on the kind: a nil value is
\* handled as PtrNil and NonePtrZero say, any other value is not supported.
nilProp(d, t, vold, prop) ==
    LET isPtr == Kind(t) = "Ptr"
        gotNilProp == Value(prop) = <<"nil">>
        ptrNeedZero == isPtr /\ d.PtrNil
        nonPtrAllowNil == ~isPtr /\ d.NonePtrZero
    IN  IF gotNilProp /\ (isPtr \/ d.NonePtrZero)
        THEN [err |-> nilError,
              val |-> IF ptrNeedZero \/ nonPtrAllowNil
                      THEN ZeroValue(t)
                      ELSE IF isPtr THEN PtrTo(vold) ELSE vold,
              fetched |-> <<>>]
        ELSE fieldResult(isPtr,
                         [err |-> errorsNew(<<"unsupported type (%T)", Value(prop)[1]>>),
                          val |-> vold], <<>>)

\* unmarshalField after unmarshalSimpleValue gave simple: vt and vold are the
\* type and value of the field or, for a pointer field, of the fresh value
\* the field was pointed to.
afterSimpleValue(d, t, vt, vold, prop, simple) ==
    LET isPtr == Kind(t) = "Ptr"
        failed(text) == fieldResult(isPtr, [err |-> errorsNew(text), val |-> vold], <<>>)
    IN  IF simple.err # errSimpleVariantsExceeded
        THEN fieldResult(isPtr, simple, <<>>)
        ELSE CASE Kind(vt) = "Slice" ->
                    IF VT(prop) # "VT_ARRAY"
                    THEN failed(<<"can't unmarshal %s into slice", VT(prop)>>)
                    ELSE fieldResult(isPtr, unmarshalSlice(vt, vold, prop[2]), <<>>)
               [] Kind(vt) = "Struct" ->
                    IF VT(prop) # "VT_DISPATCH"
                    THEN failed(<<"can't unmarshal %s into struct", VT(prop)>>)
                    ELSE nestedResult(isPtr, Unmarshal(d, prop[2], Elem(vt), vold))
               [] OTHER -> nilProp(d, t, vold, prop)

\* Puts back what a pointer field held when decoding into its new pointee
\* failed; r is what decoding gave.
restoredOnFailure(t, old, r) ==
    IF Kind(t) = "Ptr" /\ r.err # nilError THEN [r EXCEPT !.val = old] ELSE r

\* Keeps the new pointee of a pointer field only if decoding into it
\* succeeded.
unmarshalField_KeepOnSuccessOnly(d, t, old, prop) ==
    restoredOnFailure(t, old,
        IF Kind(t) = "Ptr"
        THEN afterSimpleValue(d, t, Elem(t), ZeroValue(Elem(t)), prop,
                 unmarshalSimpleValue(Elem(t), ZeroValue(Elem(t)), Value(prop)))
        ELSE afterSimpleValue(d, t, t, old, prop,
                 unmarshalSimpleValue(t, old, Value(prop))))

\* unmarshalField(fieldDst, prop): t and old are the field's type and value.
\* Gives the error, the value the field holds afterwards and the properties
\* fetched by a nested Unmarshal.  A pointer field is first pointed to a
\* fresh zero value, which is then decoded into.
unmarshalField(d, t, old, prop) ==
    IF Kind(t) = "Ptr"
    THEN afterSimpleValue(d, t, Elem(t), ZeroValue(Elem(t)), prop,
             unmarshalSimpleValue(Elem(t), ZeroValue(Elem(t)), Value(prop)))
    ELSE afterSimpleValue(d, t, t, old, prop, unmarshalSimpleValue(t, old, Value(prop)))

\* getFieldName(fType)
getFieldName(fType) == IF fType.Tag # "" THEN fType.Tag ELSE fType.Name

\* selfMadeProcess.UnmarshalOLE after d.Unmarshal(src, &dto) gave r.
selfMade(dst, r) ==
    IF r.err # nilError
    THEN [err |-> r.err, dst |-> dst, fetched |-> r.fetched]
    ELSE [err |-> nilError,
          dst |-> StructV(<<StrV(<<"0", "x">> \o FmtHex(r.dst[2][2])),
                            StrV(<<"-", "=">> \o r.dst[2][1][2] \o <<"=", "-">>)>>),
          fetched |-> r.fetched]

\* The UnmarshalOLE(d, src) methods of dumbUnmarshaller and selfMadeProcess,
\* called on dst.
UnmarshalOLE(name, d, src, dst) ==
    IF name = <<"dumbUnmarshaller">>
    THEN [err |-> errorsNew(<<"always fail">>), dst |-> dst, fetched |-> <<>>]
    ELSE selfMade(dst, Unmarshal(d, src, <<"dto">>, ZeroValue(TStruct(<<"dto">>))))

\* u.UnmarshalOLE(src) of line 455 for the caller's type: what the method
\* does is the caller's affair.  This one looks for the property Name, which
\* it records to have seen, and fails with an error of its own on an object
\* without it.
callerUnmarshalOLE(src, dst) ==
    IF HasProperty(src, "Name")
    THEN [err |-> nilError, dst |-> StructV(<<StrV(<<"s", "e", "e", "n">>)>>),
          fetched |-> <<"Name">>]
    ELSE [err |-> errorsNew(<<"object has no name">>), dst |-> dst,
          fetched |-> <<"Name">>]

\* The round of field i after unmarshalField gave r.
fieldSet(dst, i, fieldName, r) ==
    [err |-> r.err, dst |-> StructV([dst[2] EXCEPT ![i] = r.val]),
     fetched |-> <<fieldName>> \o r.fetched]

\* A round that fails on a missing property whatever AllowMissingFields says.
fieldStep_MissingAlwaysFails(d, src, name, dst, i) ==
    LET fType == StructFields(name)[i]
        fieldName == getFieldName(fType)
    IN  IF ~fType.Exported \/ fieldName = "-"
        THEN [err |-> nilError, dst |-> dst, fetched |-> <<>>]
        ELSE IF ~HasProperty(src, fieldName)
        THEN [err |-> errorsNew(<<"no such result field">>),
              dst |-> dst, fetched |-> <<fieldName>>]
        ELSE IF src[fieldName] = VT_NULL
        THEN [err |-> nilError, dst |-> dst, fetched |-> <<fieldName>>]
        ELSE fieldSet(dst, i, fieldName,
                      unmarshalField(d, fType.Type, dst[2][i], src[fieldName]))

\* A round that takes the tag "-" for a property name.
fieldStep_FetchSkipped(d, src, name, dst, i) ==
    LET fType == StructFields(name)[i]
        fieldName == getFieldName(fType)
    IN  IF ~fType.Exported
        THEN [err |-> nilError, dst |-> dst, fetched |-> <<>>]
        ELSE IF ~HasProperty(src, fieldName)
        THEN [err |-> IF ~d.AllowMissingFields
                      THEN errorsNew(<<"no such result field">>) ELSE nilError,
              dst |-> dst, fetched |-> <<fieldName>>]
        ELSE IF src[fieldName] = VT_NULL
        THEN [err |-> nilError, dst |-> dst, fetched |-> <<fieldName>>]
        ELSE fieldSet(dst, i, fieldName,
                      unmarshalField(d, fType.Type, dst[2][i], src[fieldName]))

\* A round that passes over a field when an earlier field resolves to the
\* same property name.
fieldStep_FirstWins(d, src, name, dst, i) ==
    LET fType == StructFields(name)[i]
        fieldName == getFieldName(fType)
        taken == \E j \in 1..(i - 1) : getFieldName(StructFields(name)[j]) = fieldName
    IN  IF ~fType.Exported \/ fieldName = "-" \/ taken
        THEN [err |-> nilError, dst |-> dst, fetched |-> <<>>]
        ELSE IF ~HasProperty(src, fieldName)
        THEN [err |-> IF ~d.AllowMissingFields
                      THEN errorsNew(<<"no such result field">>) ELSE nilError,
              dst |-> dst, fetched |-> <<fieldName>>]
        ELSE IF src[fieldName] = VT_NULL
        THEN [err |-> nilError, dst |-> dst, fetched |-> <<fieldName>>]
        ELSE fieldSet(dst, i, fieldName,
                      unmarshalField(d, fType.Type, dst[2][i], src[fieldName]))

\* One round of the loop of Unmarshal: field i of dst.  Gives the error of
\* the round, *dst after it and the property names passed to GetProperty.
fieldStep(d, src, name, dst, i) ==
    LET fType == StructFields(name)[i]
        fieldName == getFieldName(fType)
    IN  IF ~fType.Exported \/ fieldName = "-"
        THEN [err |-> nilError, dst |-> dst, fetched |-> <<>>]
        ELSE IF ~HasProperty(src, fieldName)
        THEN [err |-> IF ~d.AllowMissingFields
                      THEN errorsNew(<<"no such result field">>) ELSE nilError,
              dst |-> dst, fetched |-> <<fieldName>>]
        ELSE IF src[fieldName] = VT_NULL
        THEN [err |-> nilError, dst |-> dst, fetched |-> <<fieldName>>]
        ELSE fieldSet(dst, i, fieldName,
                      unmarshalField(d, fType.Type, dst[2][i], src[fieldName]))

RECURSIVE fieldWalk(_, _, _, _, _, _)

\* Returns the error of the round as it is.
nextField_RawError(d, src, name, i, fetched, s) ==
    IF s.err # nilError
    THEN [err |-> s.err, dst |-> s.dst, fetched |-> fetched \o s.fetched]
    ELSE fieldWalk(d, src, name, s.dst, i + 1, fetched \o s.fetched)

\* The loop after the round of field i gave s: return the ErrFieldMismatch
\* of the field, or go on to field i + 1.
nextField(d, src, name, i, fetched, s) ==
    IF s.err # nilError
    THEN [err |-> ErrFieldMismatch(StructFields(name)[i].Type,
                                   getFieldName(StructFields(name)[i]),
                                   ErrorText(s.err)),
          dst |-> s.dst, fetched |-> fetched \o s.fetched]
    ELSE fieldWalk(d, src, name, s.dst, i + 1, fetched \o s.fetched)

\* The loop of Unmarshal over the fields of dst from field i on; fetched is
\* the sequence of property names passed to GetProperty so far.
fieldWalk(d, src, name, dst, i, fetched) ==
    IF i > Len(StructFields(name))
    THEN [err |-> nilError, dst |-> dst, fetched |-> fetched]
    ELSE nextField(d, src, name, i, fetched, fieldStep(d, src, name, dst, i))

\* The dst arguments that are not a non-nil pointer to a structure, for which
\* reflect.ValueOf(dst).Elem(), v.Type() or v.NumField() panics: nil, a
\* structure passed by value, a pointer to an int, a nil pointer to a
\* structure.
NonStructDsts ==
    {<<"nil", "interface">>, <<"value", "miniProcess">>, <<"pointer", "Int">>,
     <<"nil pointer", "miniProcess">>}

\* A panic under way with the given value, in the place of a result.
panicking(value, dst) == [err |-> <<"panic", value>>, dst |-> dst, fetched |-> <<>>]

\* Unmarshal, lines 458-493: the reflective walk of dst.
reflectWalk(d, src, name, dst) ==
    IF name \in NonStructDsts
    THEN panicking(<<"reflect", name[1]>>, dst)
    ELSE fieldWalk(d, src, name, dst, 1, <<>>)

\* Lets a panic go on to the caller of Unmarshal.
recovered_Propagate(r) == r

\* The deferred function of Unmarshal, lines 446-451, r being what the body
\* gave: a panic is recovered and the result err is set to an error made of
\* err itself, which is nil as no round of the loop had assigned an error.
recovered(r) ==
    IF r.err[1] = "panic"
    THEN [r EXCEPT !.err = errorsNew(<<"runtime panic: %v", nilError>>)]
    ELSE r

\* d.Unmarshal(src, dst): name is the structure type dst points to and dst
\* its value at the call.  Gives the returned error, the value of *dst
\* afterwards and the properties fetched.
Unmarshal(d, src, name, dst) ==
    recovered(IF name \in Unmarshalers
              THEN callerUnmarshalOLE(src, dst)
              ELSE reflectWalk(d, src, name, dst))

\* ---- the calls of Unmarshal examined
Decoders == [NonePtrZero : BOOLEAN, PtrNil : BOOLEAN, AllowMissingFields : BOOLEAN]

\* Timestamps: date, clock and fraction, then a sign and the zone offset.
Stamp20200101 ==
    <<"2", "0", "2", "0", "0", "1", "0", "1", "1", "2", "0", "0", "0", "0", ".",
      "0", "0", "0", "0", "0", "0">>
Stamp20191231 ==
    <<"2", "0", "1", "9", "1", "2", "3", "1", "2", "3", "3", "0", "5", "9", ".",
      "0", "0", "0", "0", "0", "1">>
Stamps == {Stamp20200101, Stamp20191231}
\* 3-digit offsets in minutes, and offsets in hours and minutes.
MinuteOffsets ==
    {<<"0", "0", "0">>, <<"0", "6", "0">>, <<"0", "9", "0">>, <<"1", "2", "0">>,
     <<"7", "2", "0">>, <<"9", "9", "9">>}
HourMinuteOffsets == {<<"0", "2", "0", "0">>, <<"0", "1", "3", "0">>}
TimeStrings ==
    {b \o <<sg>> \o o : b \in Stamps, sg \in {"+", "-"},
                        o \in MinuteOffsets \cup HourMinuteOffsets}
        \cup {Stamp20200101 \o <<"+", "1", "2", "a">>, Stamp20200101}

\* A Win32_FolderRedirectionHealth object and one lacking the property.
FolderObject ==
    [p \in {"OfflineFileNameFolderGUID"} |-> Variant("VT_BSTR", <<"g", "u", "i", "d">>)]
EmptyObject == [p \in {} |-> VT_NULL]
\* The settings of a network adapter (IP enabled, DHCP not), and settings
\* whose second property is no boolean.
SettingsObject ==
    [p \in {"IPEnabled", "DHCPEnabled"} |-> Variant("VT_BOOL", p = "IPEnabled")]
HalfSettingsObject ==
    [SettingsObject EXCEPT !["DHCPEnabled"] = Variant("VT_BSTR", <<"4">>)]

IntVariants ==
    {Variant("VT_I1", n) : n \in {0 - 128, 0 - 1, 4, 127}}
        \cup {Variant("VT_I2", n) : n \in {0 - 32768, 300, 32767}}
        \cup {Variant("VT_I4", n) : n \in {0 - 70000, 70000}}
        \cup {Variant("VT_I8", 4), Variant("VT_INT", 4)}
        \cup {Variant("VT_UI1", n) : n \in {0, 200, 255}}
        \cup {Variant("VT_UI2", n) : n \in {40000, 65535}}
        \cup {Variant("VT_UI4", 70000), Variant("VT_UI8", 4), Variant("VT_UINT", 4)}

\* The VARIANTs a property is given.
Variants ==
    IntVariants
        \cup {Variant("VT_BOOL", TRUE), Variant("VT_R4", 2), VT_NULL, VT_EMPTY,
              Variant("VT_DISPATCH", FolderObject), Variant("VT_DISPATCH", EmptyObject),
              Variant("VT_DISPATCH", SettingsObject),
              Variant("VT_DISPATCH", HalfSettingsObject),
              Variant("VT_ARRAY", <<<<"unsigned", 1>>, <<"string", <<"x">>>>>>)}
        \cup {Variant("VT_BSTR", x) :
                 x \in {<<>>, <<"4">>, <<"-", "5">>, <<"S", "y", "s", "t", "e", "m">>}
                          \cup TimeStrings}

RECURSIVE GoodVariant(_)
\* The VARIANT a query gives for a property read into a field of type t.
GoodVariant(t) ==
    CASE Kind(t) \in SignedKinds -> Variant("VT_I4", 4)
      [] Kind(t) \in UnsignedKinds -> Variant("VT_UI4", 4)
      [] Kind(t) = "String" -> Variant("VT_BSTR", <<"S", "y", "s", "t", "e", "m">>)
      [] Kind(t) = "Bool" -> Variant("VT_BOOL", TRUE)
      [] Kind(t) = "Float32" -> Variant("VT_R4", 2)
      [] Kind(t) = "Ptr" -> GoodVariant(Elem(t))
      [] Kind(t) = "Slice" ->
           IF Kind(Elem(t)) = "String"
           THEN Variant("VT_ARRAY", <<<<"string", <<"1", ".", "0">>>>>>)
           ELSE Variant("VT_ARRAY", <<<<"unsigned", 1>>, <<"unsigned", 2>>>>)
      [] t = timeType -> Variant("VT_BSTR", Stamp20200101 \o <<"+", "1", "2", "0">>)
      [] t = TStruct(<<"settings">>) -> Variant("VT_DISPATCH", SettingsObject)
      [] OTHER -> Variant("VT_DISPATCH", FolderObject)

\* The fields whose property an Unmarshal into the structure reads: its own,
\* or those of the structure its UnmarshalOLE decodes into.
ReadFields(name) ==
    LET fs == IF name = <<"selfMadeProcess">>
              THEN StructFields(<<"dto">>) \o StructFields(name)
              ELSE StructFields(name)
    IN  {fs[i] : i \in 1..Len(fs)}
\* The names of the properties of the objects examined: the resolved name of
\* every field, and for a field tagged "-" its own name too.
PropNames(name) ==
    {getFieldName(f) : f \in ReadFields(name)} \cup {f.Name : f \in ReadFields(name)}
GoodObject(name) ==
    [p \in PropNames(name) |->
        GoodVariant((CHOOSE f \in ReadFields(name) :
                        p \in {getFieldName(f), f.Name}).Type)]
\* The object of a query whose result suits the structure, with at most one
\* property replaced or left out.
Objects(name) ==
    {GoodObject(name)}
        \cup {[GoodObject(name) EXCEPT ![p] = v] : p \in PropNames(name), v \in Variants}
        \cup {[q \in PropNames(name) \ {p} |-> GoodObject(name)[q]] : p \in PropNames(name)}

\* What a dst that is not a non-nil pointer to a structure holds.
DstValue(t) ==
    CASE t[1] = "value" -> OldValue(TStruct(<<t[2]>>))
      [] t[1] = "pointer" -> OldValue(<<t[2]>>)
      [] OTHER -> NilPtr

\* Unmarshal is about to be called: a Decoder, a structure type, a dynamic
\* object, and a destination that is fresh (zero) or was filled before.
DecInit ==
    /\ SubInit
    /\ chanCap = 0
    /\ eventCh = "open"
    /\ QryIdle
    /\ NewIdle
    /\ \E d \in Decoders, t \in StructNames \cup NonStructDsts :
          \E o \in IF t \in StructNames THEN Objects(t) ELSE {EmptyObject, FolderObject},
             v \in IF t \in StructNames
                   THEN {ZeroValue(TStruct(t)), OldValue(TStruct(t))}
                   ELSE {DstValue(t)} :
              dec = [decoder |-> d, usrc |-> o, dstType |-> t, udst |-> v,
                     dstAtCall |-> v, uerr |-> <<>>, ufetched |-> <<>>, upc |-> "call"]

\* err := d.Unmarshal(src, &dst)
UnmarshalCall ==
    /\ upc = "call"
    /\ LET r == Unmarshal(decoder, usrc, dstType, udst)
       IN  dec' = [dec EXCEPT !.udst = r.dst, !.uerr = r.err,
                              !.ufetched = r.fetched, !.upc = "done"]

subVarsAll ==
    <<state, mu, queryTimeoutMs, op, pc, ret, arg, waitBound, nextErr, cur,
      runner, produced, delivered, chanCap, chanLen, receiving, eventCh, heldEvents,
      stopWaitTimeouts, afterReturn>>

DecNext == UnmarshalCall /\ UNCHANGED <<subVarsAll, qry, newq>>

DecSpec == DecInit /\ [][DecNext]_vars

\* =========================================================================
\* Query: SWbemServices.Query and SWbemServicesConnection.Query.
\* =========================================================================
\* Largest number of items in a result set.
MaxItems == 3

multiArgTypeInvalid == 0
multiArgTypeStruct == 1
multiArgTypeStructPtr == 2

\* checkMultiArg(v): t is the type of v.
checkMultiArg(t) ==
    IF Kind(t) # "Slice"
    THEN [m |-> multiArgTypeInvalid, elemType |-> <<>>]
    ELSE IF Kind(Elem(t)) = "Struct"
    THEN [m |-> multiArgTypeStruct, elemType |-> Elem(t)]
    ELSE IF Kind(Elem(t)) = "Ptr" /\ Kind(Elem(Elem(t))) = "Struct"
    THEN [m |-> multiArgTypeStructPtr, elemType |-> Elem(Elem(t))]
    ELSE [m |-> multiArgTypeInvalid, elemType |-> <<>>]

ErrInvalidEntityType == errorsNew(<<"wmi: invalid entity type">>)

\* Errors of the remote calls.
ConnectServerError == errorsNew(<<"SWbemServices ConnectServer error; %v">>)
ExecQueryError == errorsNew(<<"ExecQuery">>)
EnumError == errorsNew(<<"enum">>)
ClearError(what) == errorsNew(<<"Clear", what>>)

\* multierror.Append(err, e) for an error e that is not a multierror.
multierrorAppend(err, e) ==
    IF err = nilError THEN <<"multierror", <<e>>>>
    ELSE IF err[1] = "multierror" THEN <<"multierror", Append(err[2], e)>>
    ELSE <<"multierror", <<err, e>>>>

\* The dst argument is usable: a non-nil pointer.
IsNonNilPtr(a) == Kind(a.type) = "Ptr" /\ ~a.isNil
\* dst is a non-nil pointer to a slice of structures or of pointers to them.
ValidArg(a) == IsNonNilPtr(a) /\ checkMultiArg(Elem(a.type)).m # multiArgTypeInvalid
\* The structure type of the elements of a valid dst.
ElemName(a) == Elem(checkMultiArg(Elem(a.type)).elemType)

\* The structure types queried into.
QueryElems == {<<"s">>, <<"callerUnmarshaler">>, <<"dumbUnmarshaller">>}
\* The dst arguments given to Query.
QueryArgs ==
    {[type |-> TPtr(TSlice(TStruct(e))), isNil |-> FALSE] : e \in QueryElems}
        \cup {[type |-> TPtr(TSlice(TPtr(TStruct(e)))), isNil |-> FALSE] : e \in QueryElems}
        \cup {[type |-> TPtr(TSlice(TStruct(<<"s">>))), isNil |-> TRUE],
              [type |-> TSlice(TStruct(<<"s">>)), isNil |-> FALSE],
              [type |-> TPtr(TStruct(<<"s">>)), isNil |-> FALSE],
              [type |-> TPtr(TSlice(<<"Int">>)), isNil |-> FALSE],
              [type |-> TPtr(TSlice(TPtr(<<"Int">>))), isNil |-> FALSE],
              [type |-> <<"Int">>, isNil |-> FALSE],
              [type |-> <<"Invalid">>, isNil |-> TRUE]}

\* The objects a result set is made of: one that suits the structure, and
\* the ones that lack one of its properties.
ItemObjects(name) ==
    {GoodObject(name)}
        \cup {[q \in PropNames(name) \ {p} |-> GoodObject(name)[q]] : p \in PropNames(name)}

RECURSIVE SeqsUpTo(_, _)
\* The sequences of at most n elements of S.
SeqsUpTo(S, n) ==
    IF n = 0 THEN {<<>>}
    ELSE SeqsUpTo(S, n - 1)
             \cup {Append(q, x) : q \in {r \in SeqsUpTo(S, n - 1) : Len(r) = n - 1}, x \in S}

\* What is appended to the slice for a decoded structure.
ElemValue(a, v) ==
    IF checkMultiArg(Elem(a.type)).m = multiArgTypeStructPtr THEN PtrTo(v) ELSE v

\* A Query call is about to be made.
QryInit ==
    /\ SubInit
    /\ chanCap = 0
    /\ eventCh = "open"
    /\ DecIdle
    /\ NewIdle
    /\ \E m \in {"SWbemServices", "SWbemServicesConnection"}, closed \in BOOLEAN,
          dd \in {x \in Decoders : ~x.NonePtrZero /\ ~x.PtrNil}, a \in QueryArgs :
          \E held \in IF ValidArg(a)
                      THEN {<<>>, <<ElemValue(a, OldValue(TStruct(ElemName(a))))>>}
                      ELSE {<<>>} :
              qry = [qmethod |-> m, qclosed |-> closed, qdecoder |-> dd, qarg |-> a,
                     qslice |-> held, qsliceAtCall |-> held,
                     qhandle |-> IF m = "SWbemServicesConnection" /\ closed
                                 THEN "nil" ELSE "open",
                     qlocator |-> IF m = "SWbemServicesConnection" THEN "none"
                                  ELSE IF closed THEN "nil" ELSE "open",
                     qclose |-> "none", qcloseRet |-> <<>>, qexecOn |-> "none",
                     qitems |-> <<>>, qdecoded |-> <<>>,
                     qacc |-> nilError, qret |-> <<>>, qdeferred |-> <<>>,
                     qremote |-> <<>>,
                     qpc |-> IF m = "SWbemServices" THEN "call" ELSE "query"]

\* The call after remote has been issued, q being the call otherwise.
Issued(remote, q) == [q EXCEPT !.qremote = qremote \o remote]

\* The call after SWbemServicesConnection.Query returned e: to the caller, or
\* into SWbemServices.Query, whose deferred serv.Close() is still to run.
QueryReturns(e) ==
    [qry EXCEPT !.qret = e,
                !.qpc = IF qmethod = "SWbemServices" THEN "close" ELSE "done"]

\* The calls after query returned e with n Clear calls deferred (enumProperty,
\* then resultRaw), each of which may fail and have its error appended.
QueryReturnsCleared(e, n) ==
    {[QueryReturns(
          LET e1 == IF enumFails THEN multierrorAppend(e, ClearError("enumProperty")) ELSE e
          IN  IF resultFails THEN multierrorAppend(e1, ClearError("resultRaw")) ELSE e1)
        EXCEPT !.qdeferred =
                  (IF enumFails THEN <<ClearError("enumProperty")>> ELSE <<>>)
                      \o (IF resultFails THEN <<ClearError("resultRaw")>> ELSE <<>>)] :
       enumFails \in {f \in BOOLEAN : f => n = 2}, resultFails \in BOOLEAN}

\* SWbemServices.Query, lines 79-85: the check of the locator, made under
\* the lock of the SWbemServices.
ServicesQuery ==
    /\ qpc = "call"
    /\ qclose \notin {"locked", "cleared"}
    /\ qry' = IF qlocator = "nil"
              THEN [qry EXCEPT !.qret = errorsNew(<<"SWbemServices has been closed">>),
                               !.qpc = "done"]
              ELSE [qry EXCEPT !.qpc = "connect"]

\* What ConnectServer may do, issued on s.sWbemLocator in state h: on an open
\* locator it fails or gives a connection; on a nil pointer the call panics;
\* on a pointer to a released object (a use after release) any of those.
ConnectServerOutcomes(h) ==
    (IF h # "nil"
       THEN {[qry EXCEPT !.qret = ConnectServerError, !.qpc = "done"],
             [qry EXCEPT !.qpc = "query"]}
       ELSE {})
        \cup (IF h # "open" THEN {[qry EXCEPT !.qpc = "crashed"]} ELSE {})

\* serv, err := s.ConnectServer(connectServerArgs...), made without the lock
\* of the SWbemServices.
ConnectServer ==
    /\ qpc = "connect"
    /\ qry' \in {Issued(<<"ConnectServer">>, q) : q \in ConnectServerOutcomes(qlocator)}

\* SWbemServicesConnection.Query, lines 90-95: the check of the connection,
\* made under its lock.  The connection SWbemServices.Query made is its own.
ConnectionQuery ==
    /\ qpc = "query"
    /\ qmethod = "SWbemServicesConnection" => qclose \notin {"locked", "cleared"}
    /\ qry' = IF qhandle = "nil"
              THEN QueryReturns(errorsNew(<<"SWbemServicesConnection has been closed">>))
              ELSE [qry EXCEPT !.qpc = "check_dst"]

\* SWbemServicesConnection.Query, lines 97-112: the check of dst, made after
\* s.Unlock().
CheckDst ==
    /\ qpc = "check_dst"
    /\ qry' = IF ~ValidArg(qarg)
              THEN QueryReturns(ErrInvalidEntityType)
              ELSE [qry EXCEPT !.qpc = "exec"]

\* What ExecQuery may do, issued on s.sWbemServices in state h: on an open
\* session it fails or gives a result set; on a nil pointer the call panics;
\* on a pointer to a released object (a use after release) any of those.
ExecQueryOutcomes(h) ==
    (IF h # "nil"
       THEN {QueryReturns(ExecQueryError)}
                \cup {[qry EXCEPT !.qitems = items, !.qpc = "enum"] :
                         items \in SeqsUpTo(ItemObjects(ElemName(qarg)), MaxItems)}
       ELSE {})
        \cup (IF h # "open" THEN {[qry EXCEPT !.qpc = "crashed"]} ELSE {})

\* query, lines 123-126: oleutil.CallMethod(s.sWbemServices, "ExecQuery",
\* query), made without the connection's lock.
ExecQuery ==
    /\ qpc = "exec"
    /\ qry' \in {Issued(<<"ExecQuery">>, [q EXCEPT !.qexecOn = qhandle]) :
                    q \in ExecQueryOutcomes(qhandle)}

\* query, lines 134-159: Count, _NewEnum and IEnumVARIANT, any of which may
\* fail, then the caller's slice is replaced by an empty one.
OpenEnum ==
    /\ qpc = "enum"
    /\ qry' \in {Issued(<<"Count">>, q) : q \in QueryReturnsCleared(EnumError, 1)}
                  \cup {Issued(<<"Count", "_NewEnum">>, q) :
                           q \in QueryReturnsCleared(EnumError, 1)
                                    \cup QueryReturnsCleared(EnumError, 2)
                                    \cup {[qry EXCEPT !.qslice = <<>>, !.qpc = "loop"]}}

\* The type assertion err.(*ErrFieldMismatch).
isErrFieldMismatchPtr(err) == err[1] = "*ErrFieldMismatch"

\* The call with the item decoded (r is what Unmarshal gave) and appended.
appended(r) ==
    [qry EXCEPT !.qdecoded = Append(qdecoded, r.err),
                !.qitems = Tail(qitems),
                !.qacc = IF r.err # nilError THEN multierrorAppend(qacc, r.err) ELSE qacc,
                !.qslice = Append(qslice, ElemValue(qarg, r.dst))]

\* Treats every error of Unmarshal as a field mismatch: accumulates it and
\* goes on with the next item.
afterUnmarshal_Accumulate(r) == {appended(r)}

\* The body of the loop of query after s.Unmarshal(item, ev.Interface()) gave
\* r: the calls it leads to.
afterUnmarshal(r) ==
    IF r.err # nilError /\ ~isErrFieldMismatchPtr(r.err)
    THEN {[q EXCEPT !.qdecoded = Append(qdecoded, r.err), !.qitems = Tail(qitems)] :
            q \in QueryReturnsCleared(r.err, 2)}
    ELSE {appended(r)}

\* query, lines 162-196: enum.Next(1) gives no item and the loop ends, or it
\* gives an item with an error, which is returned, or it gives the next item,
\* which is decoded into a fresh structure.
NextItem ==
    /\ qpc = "loop"
    /\ qry' \in {Issued(<<"Next">>, q) :
                    q \in IF qitems = <<>>
                           THEN QueryReturnsCleared(qacc, 2)
                           ELSE QueryReturnsCleared(EnumError, 2)
                                    \cup afterUnmarshal(
                                             Unmarshal(qdecoder, Head(qitems),
                                                       ElemName(qarg),
                                                       ZeroValue(TStruct(ElemName(qarg)))))}

\* SWbemServices.Query, lines 91-95: the deferred serv.Close() on the
\* connection the call made (part_001, lines 70-85).  SWbemServicesRaw.Clear()
\* fails, Close returns its error, which is appended to the one returned, and
\* the session stays as it is; or the session is released and
\* serv.sWbemServices set to nil.
CloseConnection ==
    /\ qpc = "close"
    /\ qry' \in {Issued(<<"Close">>, [q EXCEPT !.qpc = "done"]) :
                    q \in {[qry EXCEPT !.qhandle = "nil"],
                           [qry EXCEPT !.qret = multierrorAppend(
                                                    qret, ClearError("SWbemServicesRaw")),
                                       !.qdeferred = Append(
                                           qdeferred, ClearError("SWbemServicesRaw"))]}}

\* SWbemServicesConnection.Close called by another goroutine while the Query
\* call is under way, line 71: s.Lock().
CloseLock ==
    /\ qmethod = "SWbemServicesConnection"
    /\ qpc \in {"query", "check_dst", "exec", "enum", "loop"}
    /\ qclose = "none"
    /\ qry' = [qry EXCEPT !.qclose = "locked"]

\* Close, lines 73-79: nothing to do on a closed connection; otherwise
\* SWbemServicesRaw.Clear() fails and its error is returned, or it releases
\* the session object.
CloseClear ==
    /\ qmethod = "SWbemServicesConnection"
    /\ qclose = "locked"
    /\ qry' \in IF qhandle = "nil"
                THEN {[qry EXCEPT !.qclose = "done", !.qcloseRet = nilError]}
                ELSE {[qry EXCEPT !.qclose = "done",
                                  !.qcloseRet = ClearError("SWbemServicesRaw")],
                      [qry EXCEPT !.qclose = "cleared", !.qhandle = "released"]}

\* Close, lines 80-84: s.sWbemServices.Release(), s.sWbemServices = nil and
\* the deferred s.Unlock().
CloseFinish ==
    /\ qmethod = "SWbemServicesConnection"
    /\ qclose = "cleared"
    /\ qry' = [qry EXCEPT !.qclose = "done", !.qhandle = "nil", !.qcloseRet = nilError]

\* SWbemServices.Close called by another goroutine while the Query call is
\* under way, line 66: s.Lock().
ServicesCloseLock ==
    /\ qmethod = "SWbemServices"
    /\ qpc \in {"call", "connect", "query", "check_dst", "exec", "enum", "loop", "close"}
    /\ qclose = "none"
    /\ qry' = [qry EXCEPT !.qclose = "locked"]

\* SWbemServices.Close, lines 68-71: an error on a closed SWbemServices;
\* otherwise s.sWbemLocatorRaw.Release().
ServicesCloseRelease ==
    /\ qmethod = "SWbemServices"
    /\ qclose = "locked"
    /\ qry' = IF qlocator = "nil"
              THEN [qry EXCEPT !.qclose = "done",
                               !.qcloseRet = errorsNew(<<"SWbemServices is not Initialized">>)]
              ELSE [qry EXCEPT !.qclose = "cleared", !.qlocator = "released"]

\* SWbemServices.Close, lines 72-75: s.sWbemLocator = nil and the deferred
\* s.Unlock().
ServicesCloseFinish ==
    /\ qmethod = "SWbemServices"
    /\ qclose = "cleared"
    /\ qry' = [qry EXCEPT !.qclose = "done", !.qlocator = "nil", !.qcloseRet = nilError]

QryNext ==
    \/ ServicesQuery /\ UNCHANGED <<subVarsAll, dec, newq>>
    \/ ConnectServer /\ UNCHANGED <<subVarsAll, dec, newq>>
    \/ ConnectionQuery /\ UNCHANGED <<subVarsAll, dec, newq>>
    \/ CheckDst /\ UNCHANGED <<subVarsAll, dec, newq>>
    \/ ExecQuery /\ UNCHANGED <<subVarsAll, dec, newq>>
    \/ OpenEnum /\ UNCHANGED <<subVarsAll, dec, newq>>
    \/ NextItem /\ UNCHANGED <<subVarsAll, dec, newq>>
    \/ CloseConnection /\ UNCHANGED <<subVarsAll, dec, newq>>
    \/ CloseLock /\ UNCHANGED <<subVarsAll, dec, newq>>
    \/ CloseClear /\ UNCHANGED <<subVarsAll, dec, newq>>
    \/ CloseFinish /\ UNCHANGED <<subVarsAll, dec, newq>>
    \/ ServicesCloseLock /\ UNCHANGED <<subVarsAll, dec, newq>>
    \/ ServicesCloseRelease /\ UNCHANGED <<subVarsAll, dec, newq>>
    \/ ServicesCloseFinish /\ UNCHANGED <<subVarsAll, dec, newq>>

QrySpec == QryInit /\ [][QryNext]_vars

\* ----------------------------------------------------------- claims, Query
\* The Query call has returned from SWbemServicesConnection.Query.
QueryReturned == qpc \in {"close", "done"}
IsErrFieldMismatch(e) == e # nilError /\ e[1] \in {"ErrFieldMismatch", "*ErrFieldMismatch"}
IsOtherError(e) == e # nilError /\ ~IsErrFieldMismatch(e)
\* The number of enum.Next(1) calls issued.
NextCalls == Cardinality({i \in 1..Len(qremote) : qremote[i] = "Next"})

\* C11: when exactly one item of the result set fails to decode, with an
\* ErrFieldMismatch, Query does not abort: every item is decoded, the
\* destination holds the elements of the other items and the error returned
\* is not nil.
C11_MismatchDoesNotAbort ==
    (/\ QueryReturned
     /\ \E i \in 1..Len(qdecoded) :
           /\ IsErrFieldMismatch(qdecoded[i])
           /\ \A j \in 1..Len(qdecoded) : j # i => qdecoded[j] = nilError)
        => /\ qitems = <<>>
           /\ Len(qslice) = Len(qdecoded) - 1
           /\ qret # nilError

\* C12 as stated: when the decoding of an item fails with an error that is not
\* an ErrFieldMismatch, Query returns that very error and the destination
\* holds no element.
C12_AbortLeavesNoElements ==
    (QueryReturned /\ qdecoded # <<>> /\ IsOtherError(qdecoded[Len(qdecoded)]))
        => (qret = qdecoded[Len(qdecoded)] /\ qslice = <<>>)

\* C12, amended: when the decoding of an item fails with an error that is not
\* an ErrFieldMismatch, Query fetches and decodes no further item; the
\* destination holds the elements of the items decoded before the failing
\* one, which is not appended.  The error is returned as it is when no
\* deferred release failed; otherwise Query returns a multierror of that error
\* followed by the errors of the releases that failed, in the order they ran:
\* the enumerator's Clear, the result set's Clear and, for SWbemServices.Query
\* only, the Close of the connection it made.
C12_AbortKeepsEarlierElements ==
    (QueryReturned /\ qdecoded # <<>> /\ IsOtherError(qdecoded[Len(qdecoded)]))
        => /\ qret = IF qdeferred = <<>>
                     THEN qdecoded[Len(qdecoded)]
                     ELSE <<"multierror", <<qdecoded[Len(qdecoded)]>> \o qdeferred>>
           /\ \E enumFails, resultFails, closeFails \in BOOLEAN :
                 /\ closeFails => qmethod = "SWbemServices"
                 /\ qdeferred =
                       (IF enumFails THEN <<ClearError("enumProperty")>> ELSE <<>>)
                           \o (IF resultFails THEN <<ClearError("resultRaw")>> ELSE <<>>)
                           \o (IF closeFails THEN <<ClearError("SWbemServicesRaw")>>
                                ELSE <<>>)
           /\ NextCalls = Len(qdecoded)
           /\ Len(qslice) = Len(qdecoded) - 1
           /\ \A i \in 1..Len(qslice) : qdecoded[i] = nilError
C12_Witness ==
    /\ qpc = "done"
    /\ Len(qdecoded) = 2
    /\ qdecoded[1] = nilError
    /\ IsOtherError(qdecoded[2])
    /\ qret = qdecoded[2]
    /\ Len(qslice) = 1
    /\ qitems # <<>>

\* C13: a Query call (of either receiver, never closed) whose dst is not a
\* non-nil pointer to a slice of structures or of pointers to structures issues
\* no remote call and returns ErrInvalidEntityType.
C13_InvalidDstFailsBeforeRemote ==
    (~qclosed /\ qclose = "none" /\ ~ValidArg(qarg))
        => /\ qremote = <<>>
           /\ qpc = "done" => qret = ErrInvalidEntityType

\* --------------------------------------------------------- claims, Decoder
\* The fields of the destination of the Unmarshal call, those Unmarshal reads
\* a property for, and those among them whose property the object lacks.
DstFields == StructFields(dstType)
IsRead(i) == DstFields[i].Exported /\ getFieldName(DstFields[i]) # "-"
ReadIndexes == {i \in 1..Len(DstFields) : IsRead(i)}
MissingIndexes == {i \in ReadIndexes : getFieldName(DstFields[i]) \notin DOMAIN usrc}
FirstMissing == CHOOSE i \in MissingIndexes : \A j \in MissingIndexes : i <= j
FetchedNames == {ufetched[i] : i \in 1..Len(ufetched)}
FieldAfter(i) == udst[2][i]
FieldBefore(i) == dstAtCall[2][i]
\* The call walked the fields of the destination and has returned.
WalkDone == upc = "done" /\ dstType \in StructNames \ Unmarshalers

\* C14: when the object lacks the property of a field Unmarshal reads, then
\* with AllowMissingFields off the call returns the ErrFieldMismatch of the
\* first such field (reason "no such result field") and sets no field from it
\* on; with AllowMissingFields on the call leaves those fields as they were,
\* fetches the property of every other field Unmarshal reads and sets it.
C14_MissingProperty ==
    (WalkDone /\ MissingIndexes # {})
        => IF ~decoder.AllowMissingFields
           THEN /\ uerr = ErrFieldMismatch(DstFields[FirstMissing].Type,
                                           getFieldName(DstFields[FirstMissing]),
                                           <<"no such result field">>)
                /\ \A j \in FirstMissing..Len(DstFields) : FieldAfter(j) = FieldBefore(j)
           ELSE /\ uerr = nilError
                /\ \A j \in MissingIndexes : FieldAfter(j) = FieldBefore(j)
                /\ \A j \in ReadIndexes :
                      /\ getFieldName(DstFields[j]) \in FetchedNames
                      /\ j \notin MissingIndexes
                            => /\ FieldAfter(j) # ZeroValue(DstFields[j].Type)
                               /\ FieldAfter(j) # OldValue(DstFields[j].Type)
C14_Witness ==
    /\ upc = "done"
    /\ decoder.AllowMissingFields
    /\ dstType = <<"s">>
    /\ "HandleCount" \notin DOMAIN usrc
    /\ dstAtCall = OldValue(TStruct(dstType))
    /\ uerr = nilError
    /\ FieldAfter(2) = FieldBefore(2)
    /\ FieldAfter(3) = IntV(4)

\* C15: a field tagged wmi:"-" is never fetched (neither under the name "-"
\* nor under its own), keeps the value it had, and no error names it.
C15_SkippedField ==
    upc = "done"
        => \A i \in 1..Len(DstFields) :
              DstFields[i].Tag = "-"
                  => /\ "-" \notin FetchedNames
                     /\ DstFields[i].Name \notin FetchedNames
                     /\ FieldAfter(i) = FieldBefore(i)
                     /\ uerr # nilError => uerr[3] \notin {"-", DstFields[i].Name}
C15_Witness ==
    /\ upc = "done"
    /\ dstType = <<"taggedMiniProcess">>
    /\ "-" \in DOMAIN usrc
    /\ usrc["-"] = Variant("VT_BOOL", TRUE)
    /\ dstAtCall = OldValue(TStruct(dstType))
    /\ uerr = nilError
    /\ FieldAfter(2) = IntV(4)
    /\ FieldAfter(3) = FieldBefore(3)

\* The numbers an integer kind holds, among those TLC's integers hold.
InRange(kind, n) ==
    IF kind \in SignedKinds
    THEN Bits(kind) >= 32 \/ (0 - 2 ^ (Bits(kind) - 1) <= n /\ n < 2 ^ (Bits(kind) - 1))
    ELSE n >= 0 /\ (Bits(kind) >= 32 \/ n < 2 ^ Bits(kind))

CollisionTypes == {<<"collision">>, <<"mixedCollision">>, <<"narrowCollision">>}
AloneResult(i) == unmarshalField(decoder, DstFields[i].Type, FieldBefore(i), usrc["Field"])
FailingAlone == {i \in 1..Len(DstFields) : AloneResult(i).err # nilError}
FirstFailing == CHOOSE i \in FailingAlone : \A j \in FailingAlone : i <= j

C17_UnmarshalerDelegation ==
    (upc = "done" /\ UnmarshalOLEParams(dstType) # <<>>)
        => [err |-> uerr, dst |-> udst, fetched |-> ufetched]
              = IF UnmarshalOLEParams(dstType) = UnmarshalerParams
                THEN callerUnmarshalOLE(usrc, dstAtCall)
                ELSE UnmarshalOLE(dstType, decoder, usrc, dstAtCall)

\* The messages of the failures of a field.
FieldFailures ==
    {"no such result field", "not an integer class", "not a bool", "not a float32",
     "can't unmarshal %s into slice", "can't unmarshal %s into struct",
     "unsupported type (%T)", "can't put %T into []%s",
     "can't deserialize string into struct %T", "can't deserealize string into %s",
     "strconv.ParseInt: parsing %q: invalid syntax",
     "strconv.ParseUint: parsing %q: invalid syntax",
     "strconv.Atoi: parsing %q: invalid syntax", "parsing time %q",
     "wmi: cannot load field %q into a %q: %s"}

\* C18: every error of an Unmarshal that walks the fields is an
\* ErrFieldMismatch carrying the type and the resolved name of a field
\* Unmarshal reads and the message of the failure; and a property whose value
\* is a boolean fails so for a field that is not one (the first of them, when
\* several fields are read from that property: the call ends there).
C18_FieldFailureIsMismatch ==
    WalkDone
        => /\ uerr # nilError
                 => /\ uerr[1] = "ErrFieldMismatch"
                    /\ \E i \in ReadIndexes :
                          /\ uerr[2] = DstFields[i].Type
                          /\ uerr[3] = getFieldName(DstFields[i])
                    /\ uerr[4] # <<>>
                    /\ uerr[4][1] \in FieldFailures
           /\ \A i \in ReadIndexes :
                 (/\ getFieldName(DstFields[i]) \in DOMAIN usrc
                  /\ VT(usrc[getFieldName(DstFields[i])]) = "VT_BOOL"
                  /\ DstFields[i].Type # <<"Bool">>
                  /\ \A j \in ReadIndexes :
                        getFieldName(DstFields[j]) = getFieldName(DstFields[i]) => i <= j)
                     => uerr = ErrFieldMismatch(DstFields[i].Type,
                                                getFieldName(DstFields[i]),
                                                <<"not a bool">>)
C18_Witness ==
    /\ upc = "done"
    /\ dstType = <<"userProfile">>
    /\ ~decoder.AllowMissingFields
    /\ "Desktop" \in DOMAIN usrc
    /\ usrc["Desktop"] = Variant("VT_DISPATCH", EmptyObject)
    /\ uerr = ErrFieldMismatch(TStruct(<<"folder">>), "Desktop",
                  <<"wmi: cannot load field %q into a %q: %s",
                    "OfflineFileNameFolderGUID", <<"String">>,
                    <<"no such result field">>>>)

\* C19: an integer property of any width and signedness decodes into an
\* integer field of any width and signedness without an error, and the field
\* holds the number of the property when its kind can hold it.
C19_IntegerCrossWidth ==
    \A k \in IntKinds :
        (/\ upc = "done"
         /\ dstType = HolderName(k)
         /\ "Value" \in DOMAIN usrc
         /\ VT(usrc["Value"]) \in SignedVTs \cup UnsignedVTs)
            => /\ uerr = nilError
               /\ InRange(k, usrc["Value"][2]) => FieldAfter(1) = IntV(usrc["Value"][2])
\* C20: a timestamp whose zone offset is three digits of minutes (in an
\* object whose other properties decode) decodes to the instant of the same
\* timestamp with the offset written as hours and minutes, at that offset
\* from UTC.
C20_MinuteOffsetRenormalized ==
    \A b \in Stamps, sg \in {"+", "-"}, o \in MinuteOffsets :
        (/\ upc = "done"
         /\ dstType = <<"miniProcess">>
         /\ usrc = [GoodObject(dstType) EXCEPT
                        !["CreationDate"] = Variant("VT_BSTR", b \o <<sg>> \o o)])
            => LET mins == DecVal(o)
                   hhmm == Fmt02d(mins \div 60) \o Fmt02d(mins % 60)
                   want == ParseTime(b \o <<sg>> \o hhmm)
               IN  /\ uerr = nilError
                   /\ want.err = nilError
                   /\ Instant(FieldAfter(3)) = Instant(want.t)
                   /\ FieldAfter(3)[9] = (IF sg = "+" THEN 1 ELSE 0 - 1) * mins * 60
C20_Witness ==
    /\ upc = "done"
    /\ dstType = <<"miniProcess">>
    /\ "CreationDate" \in DOMAIN usrc
    /\ usrc["CreationDate"] = Variant("VT_BSTR", Stamp20200101 \o <<"-", "0", "9", "0">>)
    /\ uerr = nilError
    /\ FieldAfter(3) = TimeV(2020, 1, 1, 12, 0, 0, 0, 0 - 5400)

\* ---------------------------------------------------- the wait-timeout bound
\* A duration in whole milliseconds.
MillisecondsOf(t) == IF t < 0 THEN 0 - 1 ELSE t \div Millisecond

\* C22: SetNotificationTimeout(t) leaves as the bound of the next NextEvent
\* wait t expressed in milliseconds when t >= 0 and -1 (wait indefinitely)
\* when t < 0, and the next NextEvent call is issued with the bound that is
\* set.
C22_BoundInMilliseconds ==
    [][\A c \in Calls :
          /\ (pc[c] = "set_body" /\ pc'[c] = "done")
                => queryTimeoutMs' = MillisecondsOf(arg[c])
          /\ (pc[c] = "next_event" /\ pc'[c] = "waiting")
                => waitBound'[c] = queryTimeoutMs]_vars

\* ------------------------------------------------------- lock discipline
\* The positions from which the next step reads or writes q.state or
\* q.queryTimeoutMs.
AccessPcs == {"set_body", "stop_check", "stop_set", "start_check", "next_event"}

\* C26: every read and every write of the subscription's state and of its
\* wait-timeout bound is made by a call that holds the subscription's lock,
\* and the poll loop is never about to read the bound while a
\* SetNotificationTimeout call is about to write it.
C26_AccessUnderLock ==
    /\ [][\A c \in Calls : (pc[c] \in AccessPcs /\ pc'[c] # pc[c]) => mu = c]_vars
    /\ [](\A c, d \in Calls : ~(pc[c] = "next_event" /\ pc[d] = "set_body"))

\* ------------------------------------------------------- Start/Stop protocol
\* C29: a Stop call waiting for the acknowledgment of a started subscription
\* is never left waiting, with the lock held, once the StartNotifications
\* call that started the subscription has returned.
C29_StopNeverBlockedAfterLoopGone ==
    \A s \in Calls : pc[s] = "stop_wait" => ~LoopReturned

\* ---------------------------------------------------------- handle release
\* The positions of the poll loop between NextEvent's return and the end of
\* the iteration that handles what it returned.
IterationPcs == {"next_ret", "unmarshal", "send"}

\* C25: every event object NextEvent returned is released by the time the
\* loop iteration that fetched it has finished: while no iteration is under
\* way, no event object is left unreleased.
C25_EventObjectsReleased ==
    (\A c \in Calls : pc[c] \notin IterationPcs) => heldEvents = {}

\* ------------------------------------------------- claims, Query (continued)
\* C24: after a Query call that returns no error, the elements the caller's
\* slice held when Query was called are still in it, in their order, in
\* front of the elements decoded by the call.
C24_QueryAppends ==
    (qpc = "done" /\ qret = nilError)
        => /\ Len(qslice) = Len(qsliceAtCall) + Len(qdecoded)
           /\ SubSeq(qslice, 1, Len(qsliceAtCall)) = qsliceAtCall

\* C30: a SWbemServicesConnection.Query call made while another goroutine
\* closes the connection never issues ExecQuery on a session handle that
\* Close has released or set to nil: ExecQuery is issued on an open session
\* or not at all.
C30_NoExecQueryOnClosedSession ==
    (qpc # "idle" /\ qmethod = "SWbemServicesConnection")
        => qexecOn \in {"none", "open"}

\* ----------------------------------------------- claims, Decoder (continued)
\* C21: a panic raised by the reflective walk of Unmarshal (dst is not a
\* non-nil pointer to a structure) does not reach the caller: Unmarshal
\* returns, with an error that is not nil, and no call ends in a panic.
C21_PanicBecomesError ==
    upc = "done"
        => /\ uerr[1] # "panic"
           /\ dstType \in NonStructDsts
                 => /\ uerr = errorsNew(<<"runtime panic: %v", nilError>>)
                    /\ udst = dstAtCall
C21_Witness ==
    /\ upc = "done"
    /\ dstType = <<"pointer", "Int">>
    /\ uerr # nilError
    /\ uerr[1] = "error"

\* The pointer fields of the destination that the call failed on while
\* decoding the value fetched for them.
FailedPtrIndexes ==
    {i \in ReadIndexes :
        /\ Kind(DstFields[i].Type) = "Ptr"
        /\ uerr[1] = "ErrFieldMismatch"
        /\ uerr[2] = DstFields[i].Type
        /\ uerr[3] = getFieldName(DstFields[i])
        /\ uerr[4] # <<"no such result field">>}

\* C27 as stated: a pointer field whose value failed to decode is left as it
\* was before the call.
C27_FailedPointerFieldUnchanged ==
    WalkDone => \A i \in FailedPtrIndexes : FieldAfter(i) = FieldBefore(i)

\* The type a pointer field points to, and what a failed decoding leaves in
\* the new pointee of field i: what the nested Unmarshal had stored in a
\* structure before it failed, and otherwise nothing.
PointeeType(i) == Elem(DstFields[i].Type)
FailedPointee(i) ==
    IF /\ Kind(PointeeType(i)) = "Struct"
       /\ VT(usrc[getFieldName(DstFields[i])]) = "VT_DISPATCH"
    THEN Unmarshal(decoder, usrc[getFieldName(DstFields[i])][2], Elem(PointeeType(i)),
                   ZeroValue(PointeeType(i))).dst
    ELSE ZeroValue(PointeeType(i))

\* C27, amended: a pointer field is pointed to a newly allocated zero pointee
\* before the value is decoded into it, and keeps pointing to it when
\* decoding fails: after a failure on the field it points to the new pointee,
\* whatever it held before the call, and the pointee holds what the failed
\* decoding had stored in it (nothing, that is the zero value, unless the
\* pointee is a structure, whose fields decoded before the failing one are
\* set).  After a call without error on an object whose property is not null
\* the field points to the decoded value, except that for a property without
\* a value it is nil with PtrNil on and points to a zero value with PtrNil
\* off.
C27_FailedPointerFieldKeepsPointee ==
    WalkDone
        => /\ \A i \in FailedPtrIndexes :
                 /\ FieldAfter(i) = PtrTo(FailedPointee(i))
                 /\ Kind(PointeeType(i)) # "Struct"
                       => FieldAfter(i) = PtrTo(ZeroValue(PointeeType(i)))
           /\ \A i \in ReadIndexes :
                 (/\ Kind(DstFields[i].Type) = "Ptr"
                  /\ uerr = nilError
                  /\ getFieldName(DstFields[i]) \in DOMAIN usrc
                  /\ usrc[getFieldName(DstFields[i])] # VT_NULL)
                     => IF Value(usrc[getFieldName(DstFields[i])]) = <<"nil">>
                        THEN FieldAfter(i) = IF decoder.PtrNil THEN NilPtr
                                             ELSE PtrTo(ZeroValue(PointeeType(i)))
                        ELSE FieldAfter(i)[1] = "ptr"
C27_Witness ==
    /\ upc = "done"
    /\ dstType = <<"adapterSettings">>
    /\ dstAtCall = OldValue(TStruct(dstType))
    /\ "Settings" \in DOMAIN usrc
    /\ usrc["Settings"] = Variant("VT_DISPATCH", HalfSettingsObject)
    /\ uerr # nilError
    /\ FieldBefore(2) = PtrTo(StructV(<<BoolV(TRUE), BoolV(TRUE)>>))
    /\ FieldAfter(2) = PtrTo(StructV(<<BoolV(TRUE), BoolV(FALSE)>>))

\* The fields Unmarshal reads whose property holds no value (VT_EMPTY) and
\* the first of them.
NilIndexes ==
    {i \in ReadIndexes :
        /\ getFieldName(DstFields[i]) \in DOMAIN usrc
        /\ usrc[getFieldName(DstFields[i])] = VT_EMPTY}
FirstNil == CHOOSE i \in NilIndexes : \A j \in NilIndexes : i <= j
\* What C28 states for field i, whose property holds no value.
NilOutcome(i) ==
    IF Kind(DstFields[i].Type) = "Ptr"
    THEN /\ uerr = nilError
         /\ FieldAfter(i) = IF decoder.PtrNil THEN NilPtr
                            ELSE PtrTo(ZeroValue(Elem(DstFields[i].Type)))
    ELSE IF decoder.NonePtrZero
    THEN /\ uerr = nilError
         /\ FieldAfter(i) = ZeroValue(DstFields[i].Type)
    ELSE uerr = ErrFieldMismatch(DstFields[FirstNil].Type,
                                 getFieldName(DstFields[FirstNil]),
                                 <<"unsupported type (%T)", "nil">>)

\* C28 as stated: every field whose fetched value is nil ends as PtrNil (a
\* pointer field) or NonePtrZero (any other field) says.
C28_NilOutcomeByFlags ==
    WalkDone => \A i \in NilIndexes : NilOutcome(i)

\* =========================================================================
\* NewNotificationQuery (connection_test.go)
\* =========================================================================
\* reflect.TypeOf(nil): no type.
NilType == <<"nil">>
TChan(dir, t) == <<"Chan", t, dir>>
TMap(t) == <<"Map", t>>

\* The element types of the channels, slices and maps passed as eventCh.
EventTypes ==
    UNION {{TStruct(n), TPtr(TStruct(n)), TSlice(TStruct(n)), TPtr(TPtr(TStruct(n))),
            TSlice(TPtr(TStruct(n)))} : n \in QueryElems}
        \cup {<<"Int">>, <<"String">>, TPtr(<<"Int">>), TPtr(<<"String">>),
              TSlice(<<"Int">>)}
\* The types of the eventCh arguments: channels of either direction or both,
\* values that are no channel, and nil.
EventChTypes ==
    {TChan(dir, t) : dir \in {"both", "send", "recv"}, t \in EventTypes}
        \cup EventTypes
        \cup {TMap(t) : t \in EventTypes}
        \cup {NilType}

\* isChannelTypeOK(eventCh), chT being reflect.TypeOf(eventCh): "true",
\* "false", or "panic" (chT.Kind() on the nil Type of a nil eventCh).
isChannelTypeOK(chT) ==
    IF chT = NilType THEN "panic"
    ELSE IF Kind(chT) # "Chan" THEN "false"
    ELSE IF Kind(Elem(chT)) = "Struct" THEN "true"
    ELSE IF Kind(Elem(chT)) = "Ptr" /\ Kind(Elem(Elem(chT))) = "Struct" THEN "true"
    ELSE "false"

\* The error of line 266 (its text without the quoting marks).
errIncorrectType ==
    errorsNew(<<"eventCh has incorrect type; should be chan T or chan *T">>)

\* NewNotificationQuery is about to be called; the NotificationQuery is not
\* made yet (its fields are zero).
NewInit ==
    /\ state = 0
    /\ mu = NoCall
    /\ queryTimeoutMs = 0
    /\ op = [c \in Calls |-> "none"]
    /\ pc = [c \in Calls |-> "idle"]
    /\ ret = [c \in Calls |-> "none"]
    /\ arg = [c \in Calls |-> 0]
    /\ waitBound = [c \in Calls |-> 0]
    /\ nextErr = [c \in Calls |-> NilErr]
    /\ cur = [c \in Calls |-> NoEvent]
    /\ runner = NoCall
    /\ produced = 0
    /\ delivered = <<>>
    /\ chanCap = 0
    /\ chanLen = 0
    /\ receiving = TRUE
    /\ eventCh = "none"
    /\ heldEvents = {}
    /\ stopWaitTimeouts = 0
    /\ afterReturn = [c \in Calls |-> FALSE]
    /\ DecIdle
    /\ QryIdle
    /\ \E t \in EventChTypes : newq = [ntype |-> t, nret |-> <<>>, npc |-> "call"]

\* NewNotificationQuery after isChannelTypeOK(eventCh) gave ok: the panic goes
\* on to the caller, or the error is returned, or the query is made: not
\* started, with the default timeout set and holding the channel passed (line
\* 271), which only a receive-only type makes unusable for sending.
afterTypeCheck(ok) ==
    /\ newq' = [newq EXCEPT !.npc = "done",
                            !.nret = CASE ok = "panic" -> <<"panic", "nil pointer dereference">>
                                       [] ok = "false" -> errIncorrectType
                                       [] OTHER -> nilError]
    /\ IF ok = "true"
       THEN /\ state' = stateNotStarted
            /\ queryTimeoutMs' = DurationToBound(defaultNotificationTimeout)
            /\ eventCh' = IF ntype[3] = "recv" THEN "recv-only" ELSE "open"
       ELSE UNCHANGED <<state, queryTimeoutMs, eventCh>>

NewNotificationQuery ==
    /\ npc = "call"
    /\ afterTypeCheck(isChannelTypeOK(ntype))
    /\ UNCHANGED <<mu, op, pc, ret, arg, waitBound, nextErr, cur, runner,
                   stopWaitTimeouts, afterReturn, produced, delivered, chanCap,
                   chanLen, receiving, heldEvents, dec, qry>>

NewNext == NewNotificationQuery

NewSpec == NewInit /\ [][NewNext]_vars

\* eventCh is a channel of structures or of pointers to structures.
IsStructChan(t) ==
    /\ t # NilType
    /\ Kind(t) = "Chan"
    /\ \/ Kind(Elem(t)) = "Struct"
       \/ Kind(Elem(t)) = "Ptr" /\ Kind(Elem(Elem(t))) = "Struct"

\* C23: NewNotificationQuery returns without error exactly when eventCh is a
\* channel of structures or of pointers to structures, and for every other
\* eventCh it returns the error "eventCh has incorrect type".
C23_ChannelTypeChecked ==
    npc = "done"
        => IF IsStructChan(ntype) THEN nret = nilError ELSE nret = errIncorrectType

\* C23 for the eventCh values that have a type (every value but nil).
C23_TypedChannelChecked ==
    (npc = "done" /\ ntype # NilType)
        => IF IsStructChan(ntype)
           THEN nret = nilError /\ queryTimeoutMs = DurationToBound(defaultNotificationTimeout)
           ELSE nret = errIncorrectType /\ queryTimeoutMs = 0

====
